---- MODULE Spec2Model ----
(***************************************************************************)
(* Model of the arki Discord bot: the tool-call ledger (ToolCallsStore),   *)
(* the conversation assembler (convertToAIMessages), the outer mention     *)
(* pipeline (handleMessage) and the nested OpenProject agent loop          *)
(* (openProjectAgentTool.execute).                                         *)
(*                                                                         *)
(* Strings the code takes apart or builds (message ids, composite keys,    *)
(* the query) are sequences of one-character strings; the other strings    *)
(* are opaque.                                                             *)
(***************************************************************************)
EXTENDS Integers, Sequences, FiniteSets, TLC

(***************************************************************************)
(* Values of the JavaScript runtime                                        *)
(***************************************************************************)

\* JavaScript undefined (Map.get of a missing key, a missing field)
Undefined == [undefined |-> TRUE]

\* A string is a sequence of tokens (characters, or opaque chunks of text);
\* a string-or-null value is Text(s) or Null
Null == [null |-> TRUE]

Text(s) == [text |-> s]

\* JavaScript truthiness of a string-or-null value
Truthy(content) == content # Null /\ content # Text(<<>>)

RECURSIVE SeqToSet(_)
SeqToSet(s) == IF s = <<>> THEN {} ELSE {Head(s)} \cup SeqToSet(Tail(s))

\* Sequences over S of length at most n
RECURSIVE SeqsUpTo(_, _)
SeqsUpTo(S, n) ==
  IF n = 0 THEN {<<>>}
  ELSE LET shorter == SeqsUpTo(S, n - 1)
       IN  shorter \cup {Append(s, x) : s \in {t \in shorter : Len(t) = n - 1}, x \in S}

NoRepeat(s) == \A i, j \in 1..Len(s) : i # j => s[i] # s[j]

\* Sequences over S of length at most n, without repeated elements
DistinctSeqs(S, n) == {s \in SeqsUpTo(S, n) : NoRepeat(s)}

(***************************************************************************)
(* Messages of the chat platform (discord.js Message), as far as the code  *)
(* reads them                                                              *)
(***************************************************************************)

\* A message: id (snowflake, a digit string), createdTimestamp (number),
\* author.bot, the display name, content, attachments (name and content
\* type each), embeds, stickers, a reply reference, a poll, reactions
Msg(id, ts, bot, username, content) ==
  [id |-> id, createdTimestamp |-> ts, bot |-> bot, username |-> username,
   content |-> content, attachments |-> <<>>, embeds |-> 0, stickers |-> 0,
   reference |-> FALSE, poll |-> FALSE, reactions |-> 0]

\* A bot reply as sendSplitMessage returns it
BotReply(id, ts, content) == Msg(id, ts, TRUE, <<"a", "r", "k", "i">>, content)

\* A plain text message of a user
UserText(id, ts, content) == Msg(id, ts, FALSE, <<"a", "n", " ", "n">>, content)

DigitChars == <<"0", "1", "2", "3", "4", "5", "6", "7", "8", "9">>

\* Template-literal formatting of a non-negative number: its decimal digits
RECURSIVE NumberToString(_)
NumberToString(n) ==
  IF n < 10 THEN <<DigitChars[n + 1]>>
  ELSE NumberToString(n \div 10) \o <<DigitChars[(n % 10) + 1]>>

(***************************************************************************)
(* ToolCallsStore: the ledger.  toolCallsMap is a JavaScript Map: a        *)
(* sequence of [key, data] entries in insertion order, keys unique.        *)
(***************************************************************************)

MapHas(map, key) == \E i \in 1..Len(map) : map[i].key = key

MapGet(map, key) ==
  IF MapHas(map, key)
  THEN map[CHOOSE i \in 1..Len(map) : map[i].key = key].data
  ELSE Undefined

\* Map.set: an existing key keeps its position, a new key goes last
MapSet(map, key, data) ==
  IF MapHas(map, key)
  THEN [i \in 1..Len(map) |->
          IF map[i].key = key THEN [key |-> key, data |-> data] ELSE map[i]]
  ELSE Append(map, [key |-> key, data |-> data])

MapKeys(map) == {map[i].key : i \in 1..Len(map)}

\* The mutant of generateMessageKey: the separator is left out
generateMessageKeyNoSeparator(message) ==
  message.id \o NumberToString(message.createdTimestamp)

\* `${message.id}_${message.createdTimestamp}`
generateMessageKey(message) ==
  message.id \o <<"_">> \o NumberToString(message.createdTimestamp)

ToolCallData(message, toolCalls, toolResults) ==
  [messageId |-> message.id, messageContent |-> message.content,
   timestamp |-> message.createdTimestamp,
   toolCalls |-> toolCalls, toolResults |-> toolResults]

\* The mutant of storeToolCallsForMessage: an existing entry is kept
storeKeepsExisting(map, message, toolCalls, toolResults) ==
  IF MapHas(map, generateMessageKey(message)) THEN map
  ELSE MapSet(map, generateMessageKey(message),
              ToolCallData(message, toolCalls, toolResults))

storeToolCallsForMessage(map, message, toolCalls, toolResults) ==
  MapSet(map, generateMessageKey(message),
         ToolCallData(message, toolCalls, toolResults))

getToolCallsForMessage(map, message) == MapGet(map, generateMessageKey(message))

\* The first entry, in insertion order, with that messageId
getToolCallsByMessageId(map, messageId) ==
  IF \E i \in 1..Len(map) : map[i].data.messageId = messageId
  THEN LET first == CHOOSE i \in 1..Len(map) :
                      /\ map[i].data.messageId = messageId
                      /\ \A j \in 1..(i - 1) : map[j].data.messageId # messageId
       IN  map[first].data
  ELSE Undefined

recentMessageKeys(recentMessages) ==
  {generateMessageKey(recentMessages[i]) : i \in 1..Len(recentMessages)}

recentMessageIds(recentMessages) ==
  {recentMessages[i].id : i \in 1..Len(recentMessages)}

\* The mutant of cleanupOldToolCalls: only the composite key is consulted
cleanupByKeyOnly(map, recentMessages) ==
  SelectSeq(map, LAMBDA e : e.key \in recentMessageKeys(recentMessages))

\* The mutant of cleanupOldToolCalls: the walk over the keys ends with its
\* first deletion
cleanupFirstOnly(map, recentMessages) ==
  LET removed(e) ==
        /\ e.key \notin recentMessageKeys(recentMessages)
        /\ e.data.messageId \notin recentMessageIds(recentMessages)
      firstRemoved ==
        {i \in 1..Len(map) : removed(map[i]) /\ \A j \in 1..(i - 1) : ~removed(map[j])}
  IN  [k \in 1..(Len(map) - Cardinality(firstRemoved)) |->
         IF \E i \in firstRemoved : i <= k THEN map[k + 1] ELSE map[k]]

\* An entry goes when its key is not a recent key and its messageId (or ''
\* when that is falsy) is not a recent id
cleanupOldToolCalls(map, recentMessages) ==
  LET removed(e) ==
        /\ e.key \notin recentMessageKeys(recentMessages)
        /\ (IF e.data.messageId = <<>> THEN <<>> ELSE e.data.messageId)
             \notin recentMessageIds(recentMessages)
  IN  SelectSeq(map, LAMBDA e : ~removed(e))

(***************************************************************************)
(* ConversationAssembler: convertToAIMessages                              *)
(***************************************************************************)

\* contentType.startsWith(prefix); a missing content type is <<>>
StartsWith(string, prefix) == string # <<>> /\ Head(string) = prefix

TextPart(text) == [type |-> "text", text |-> text]

ImagePart(url) == [type |-> "image_url", image_url |-> [url |-> url, detail |-> "auto"]]

\* An image becomes a native image part (the data URL, or the URL itself
\* when the download failed); audio and every other type a descriptive text
convertAttachmentToContentPart(attachment) ==
  IF StartsWith(attachment.contentType, "image/")
  THEN ImagePart(<<"url:", attachment.name>>)
  ELSE IF StartsWith(attachment.contentType, "audio/")
  THEN TextPart(<<"[Audio File: ", attachment.name, "]">>)
  ELSE TextPart(<<"[Attachment: ", attachment.name, "]">>)

NameChars == {"a", "b", "i", "k", "n", "r", "_", "-"}

\* username.replace(/[^a-zA-Z0-9_-]/g, '_').substring(0, 64)
cleanName(username) ==
  LET replaced == [i \in 1..Len(username) |->
                     IF username[i] \in NameChars THEN username[i] ELSE "_"]
  IN  SubSeq(replaced, 1, IF Len(replaced) < 64 THEN Len(replaced) ELSE 64)

\* The content parts of a user turn, in the order the code pushes them
userContentParts(message) ==
  <<TextPart(message.username \o <<":">>)>>
  \o (IF message.reference THEN <<TextPart(<<"[Reply to: ", "]">>)>> ELSE <<>>)
  \o (IF message.content # <<>> THEN <<TextPart(message.content)>> ELSE <<>>)
  \o [i \in 1..Len(message.attachments) |->
        convertAttachmentToContentPart(message.attachments[i])]
  \o [i \in 1..message.embeds |-> TextPart(<<"[Embed:", "]">>)]
  \o [i \in 1..message.stickers |-> TextPart(<<"[Sticker: ", "]">>)]
  \o (IF message.poll THEN <<TextPart(<<"[Poll: ", "]">>)>> ELSE <<>>)
  \o (IF message.reactions > 0 THEN <<TextPart(<<"[Reactions: ", "]">>)>> ELSE <<>>)
  \o <<TextPart(<<"[Sent: ">> \o NumberToString(message.createdTimestamp) \o <<"]">>)>>

userMessage(message) ==
  [role |-> "user",
   content |-> [parts |-> userContentParts(message)],
   name |-> cleanName(message.username)]

\* The content parts of a bot turn: text, attachments, embeds (no stickers)
botContentParts(message) ==
  (IF message.content # <<>> THEN <<TextPart(message.content)>> ELSE <<>>)
  \o [i \in 1..Len(message.attachments) |->
        IF StartsWith(message.attachments[i].contentType, "image/")
        THEN ImagePart(<<"url:", message.attachments[i].name>>)
        ELSE TextPart(<<"[Bot shared: ", message.attachments[i].name, "]">>)]
  \o [i \in 1..message.embeds |-> TextPart(<<"[Bot embed: ", "]">>)]

RECURSIVE JoinParts(_)
JoinParts(parts) ==
  IF parts = <<>> THEN <<>>
  ELSE LET one == IF Head(parts).type = "text" THEN Head(parts).text
                  ELSE <<"[Image: ", "...]">>
       IN  IF Len(parts) = 1 THEN one ELSE one \o <<" ">> \o JoinParts(Tail(parts))

\* Assistant turns are text only: null, the single text, or the joined text
botContent(message) ==
  LET contentParts == botContentParts(message)
  IN  IF contentParts = <<>> THEN Null
      ELSE IF Len(contentParts) = 1 /\ contentParts[1].type = "text"
      THEN Text(contentParts[1].text)
      ELSE Text(JoinParts(contentParts))

assistantMessage(content) == [role |-> "assistant", content |-> content]

toolCallMessage(toolCalls) ==
  [role |-> "assistant", content |-> Null, tool_calls |-> toolCalls]

toolMessage(content, toolCallId) ==
  [role |-> "tool", content |-> Text(content), tool_call_id |-> toolCallId]

\* The tool messages spliced in for one ledger entry: results and calls are
\* paired by index, an index without a call is skipped
injectedToolMessages(toolCallData) ==
  LET paired == SelectSeq([i \in 1..Len(toolCallData.toolResults) |-> i],
                          LAMBDA i : i <= Len(toolCallData.toolCalls))
  IN  [k \in 1..Len(paired) |->
         toolMessage(toolCallData.toolResults[paired[k]].content,
                     toolCallData.toolCalls[paired[k]].id)]

\* The empty-bot-message skip at the top of the loop body
skippedAsEmpty(message) ==
  /\ message.bot
  /\ message.content = <<>>
  /\ Len(message.attachments) = 0
  /\ message.embeds = 0
  /\ message.stickers = 0

\* The mutant of convertMessage: the ledger's messages go after the reply
convertMessageInjectAfter(map, message, aiMessages) ==
  IF skippedAsEmpty(message) THEN aiMessages
  ELSE IF ~message.bot THEN Append(aiMessages, userMessage(message))
  ELSE IF ~Truthy(botContent(message)) THEN aiMessages
  ELSE LET toolCallData == getToolCallsForMessage(map, message)
       IN  IF toolCallData # Undefined /\ Len(toolCallData.toolCalls) > 0
           THEN aiMessages \o <<assistantMessage(botContent(message))>>
                  \o <<toolCallMessage(toolCallData.toolCalls)>>
                  \o injectedToolMessages(toolCallData)
           ELSE Append(aiMessages, assistantMessage(botContent(message)))

\* One pass of the loop body of convertToAIMessages
convertMessage(map, message, aiMessages) ==
  IF skippedAsEmpty(message) THEN aiMessages
  ELSE IF ~message.bot THEN Append(aiMessages, userMessage(message))
  ELSE IF ~Truthy(botContent(message)) THEN aiMessages
  ELSE LET toolCallData == getToolCallsForMessage(map, message)
       IN  IF toolCallData # Undefined /\ Len(toolCallData.toolCalls) > 0
           THEN aiMessages \o <<toolCallMessage(toolCallData.toolCalls)>>
                  \o injectedToolMessages(toolCallData)
                  \o <<assistantMessage(botContent(message))>>
           ELSE Append(aiMessages, assistantMessage(botContent(message)))

RECURSIVE convertAll(_, _, _)
convertAll(map, messages, aiMessages) ==
  IF messages = <<>> THEN aiMessages
  ELSE convertAll(map, Tail(messages), convertMessage(map, Head(messages), aiMessages))

\* The white space String.prototype.trim strips
IsSpace(ch) == ch \in {" ", "\n"}

RECURSIVE TrimStart(_)
TrimStart(s) == IF s # <<>> /\ IsSpace(Head(s)) THEN TrimStart(Tail(s)) ELSE s

RECURSIVE TrimEnd(_)
TrimEnd(s) ==
  IF s # <<>> /\ IsSpace(s[Len(s)]) THEN TrimEnd(SubSeq(s, 1, Len(s) - 1)) ELSE s

\* String.prototype.trim
Trim(s) == TrimEnd(TrimStart(s))

\* The mutant of queryMessages: the query is appended untrimmed and unchecked
queryMessagesUntrimmed(query) == <<[role |-> "user", content |-> Text(query)]>>

\* The current query, trimmed, as the last user message; nothing when blank
queryMessages(query) ==
  IF Trim(query) # <<>> THEN <<[role |-> "user", content |-> Text(Trim(query))]>>
  ELSE <<>>

convertToAIMessages(map, messages, query) ==
  convertAll(map, messages, <<>>) \o queryMessages(query)

(***************************************************************************)
(* Tool calls and tool results (OpenAI SDK shapes)                         *)
(***************************************************************************)

ToolCall(id, type, name, arguments) ==
  [id |-> id, type |-> type, function |-> [name |-> name, arguments |-> arguments]]

ToolResult(toolCallId, name, content) ==
  [tool_call_id |-> toolCallId, role |-> "tool", name |-> name, content |-> content]

(***************************************************************************)
(* The nested agent: openProjectAgentTool.execute and its registry         *)
(***************************************************************************)

\* The largest max_iterations an agent run is started with
MaxBudget == 2

\* The tools OpenProjectToolsRegistry registers in its constructor
OpenProjectTools ==
  {"list_projects", "create_work_package", "list_work_packages",
   "assign_user", "search_users", "get_metadata"}

\* The tools the outer ToolsRegistry registers in its constructor
OuterTools == {"get_date_time", "openproject_agent"}

\* The mutant of registryHas: the nested registry answers for the outer
\* registry's tools too
registryHasOuterToo(registry, name) == name \in registry \cup OuterTools

\* this.tools.get(name) finds a tool
registryHas(registry, name) == name \in registry

\* JSON.parse(argsString) returns: the text is an object literal
JsonParses(arguments) ==
  /\ Len(arguments) >= 2
  /\ Head(arguments) = "{"
  /\ arguments[Len(arguments)] = "}"

LowerChars ==
  [c \in {"L", "I", "S", "T", "AI", "Rate", "Provider", "Please", "Insufficient",
          "Missing", "Permissions", ".JPEG"} |->
     CASE c = "L" -> "l" [] c = "I" -> "i" [] c = "S" -> "s" [] c = "T" -> "t"
       [] c = "AI" -> "ai" [] c = "Rate" -> "rate" [] c = "Provider" -> "provider"
       [] c = "Please" -> "please" [] c = "Insufficient" -> "insufficient"
       [] c = "Missing" -> "missing" [] c = "Permissions" -> "permissions"
       [] c = ".JPEG" -> ".jpeg"]

\* String.prototype.toLowerCase
ToLowerCase(s) ==
  [i \in 1..Len(s) |-> IF s[i] \in DOMAIN LowerChars THEN LowerChars[s[i]] ELSE s[i]]

\* String.prototype.includes
Includes(s, sub) ==
  \E i \in 1..(Len(s) - Len(sub) + 1) : SubSeq(s, i, i + Len(sub) - 1) = sub

\* The task wording asks for a listing
taskNeedsList(task) ==
  \/ Includes(ToLowerCase(task), <<"l", "i", "s", "t">>)
  \/ Includes(ToLowerCase(task), <<"i", "s", "s", "u", "e">>)
  \/ Includes(ToLowerCase(task),
              <<"w", "o", "r", "k", " ", "p", "a", "c", "k", "a", "g", "e">>)

\* The first result with that tool_call_id (Array.prototype.find)
findResult(results, toolCallId) ==
  IF \E i \in 1..Len(results) : results[i].tool_call_id = toolCallId
  THEN results[CHOOSE i \in 1..Len(results) :
                 /\ results[i].tool_call_id = toolCallId
                 /\ \A j \in 1..(i - 1) : results[j].tool_call_id # toolCallId]
  ELSE Undefined

\* The mutant of foundUserId: the wording of the task is not consulted
foundUserIdAnyTask(toolCalls, results, task) ==
  \E i \in 1..Len(toolCalls) :
    /\ toolCalls[i].function.name = "search_users"
    /\ findResult(results, toolCalls[i].id) # Undefined
    /\ Includes(findResult(results, toolCalls[i].id).content.text, <<"User ID:">>)

\* Some search_users call of the turn has a result with "User ID:" and the
\* task wording asks for a listing
foundUserId(toolCalls, results, task) ==
  \E i \in 1..Len(toolCalls) :
    /\ toolCalls[i].function.name = "search_users"
    /\ findResult(results, toolCalls[i].id) # Undefined
    /\ Includes(findResult(results, toolCalls[i].id).content.text, <<"User ID:">>)
    /\ taskNeedsList(task)

summaryRequest ==
  [role |-> "user",
   content |-> Text(<<"Please provide a comprehensive final summary">>)]

\* The mutant of summaryMessages: the extension flag is not consulted at the
\* configured ceiling
summaryMessagesAtCeiling(iterationCount, maxIterations, found) ==
  IF iterationCount = maxIterations THEN <<summaryRequest>>
  ELSE IF iterationCount = maxIterations + 2 THEN <<summaryRequest>>
  ELSE <<>>

\* The user message pushed after a turn's tool results, if any
summaryMessages(iterationCount, maxIterations, found) ==
  IF iterationCount = maxIterations /\ ~found THEN <<summaryRequest>>
  ELSE IF iterationCount = maxIterations + 2 THEN <<summaryRequest>>
  ELSE <<>>

\* The mutant of loopContinues: the extension is granted unconditionally
loopContinuesExtended(iterationCount, maxIterations, found) ==
  iterationCount < maxIterations + 3

\* The while condition of the iteration loop
loopContinues(iterationCount, maxIterations, found) ==
  \/ iterationCount < maxIterations
  \/ (found /\ iterationCount < maxIterations + 2)

\* The text a response's content gives: the content when it is a string,
\* the default otherwise
contentOr(content, default) == IF content # Null THEN content.text ELSE default

\* The mutant of errorResult: the invocation's id is dropped
errorResultNoId(toolCall, message) ==
  [tool_call_id |-> "", role |-> "tool",
   content |-> Text(<<"Error: Failed to execute ", toolCall.function.name, ": ", message>>)]

\* The result pushed in the catch block of the tool loop
errorResult(toolCall, message) ==
  [tool_call_id |-> toolCall.id, role |-> "tool",
   content |-> Text(<<"Error: Failed to execute ", toolCall.function.name, ": ", message>>)]

okResult(toolCall, resultString) ==
  [tool_call_id |-> toolCall.id, role |-> "tool", content |-> Text(resultString)]

\* !finalResponse && iterationCount >= max_iterations
needsFinalResponse(finalResponse, iterationCount, maxIterations) ==
  finalResponse = <<>> /\ iterationCount >= maxIterations

\* The string execute returns: header, final response, provenance footer
agentReturn(finalResponse, toolCount, iterationCount) ==
  <<"**OpenProject Agent Results**">> \o finalResponse
    \o <<"*Task completed using ", toolCount, " specialized OpenProject tools in ",
         iterationCount, " iterations*">>

agentErrorReturn(message) == <<"OpenProject Agent encountered an error: ", message>>

(***************************************************************************)
(* The outer pipeline: handleMessage and what it calls                     *)
(***************************************************************************)

\* config.ai.messageHistoryLimit, the number of messages fetched as the window
messageHistoryLimit == 2

\* The two forms of the bot's mention in a message's content
MentionTokens == {"<@42>", "<@!42>"}

\* content.replace(/<@!?id>/g, '').trim()
extractQueryFromMention(content) ==
  Trim(SelectSeq(content, LAMBDA ch : ch \notin MentionTokens))

\* channel.messages.fetch({limit}) reversed: the last limit messages of the
\* channel, oldest first
fetchRecentMessages(channelMessages, limit) ==
  IF Len(channelMessages) <= limit THEN channelMessages
  ELSE SubSeq(channelMessages, Len(channelMessages) - limit + 1, Len(channelMessages))

\* content || "I processed your request but have no response."
contentOrNoResponse(content) ==
  IF Truthy(content) THEN content.text
  ELSE <<"I processed your request but have no response.">>

\* The result processToolCalls pushes in its catch block
outerErrorResult(call) ==
  ToolResult(call.id, call.function.name,
             <<"Error: Failed to execute tool ", call.function.name>>)

\* The result processToolCalls pushes when executeTool returned
outerOkResult(call, resultString) ==
  ToolResult(call.id, call.function.name, resultString)

\* What processUserMessage returns for a response without tool calls
textResponse(content) == [content |-> content]

\* The mutant of toolResponse: the requested invocations are left out
toolResponseWithoutCalls(content, toolCalls, results) ==
  [content |-> content, toolCalls |-> <<>>, toolResults |-> results]

\* What handleToolCalls returns
toolResponse(content, toolCalls, results) ==
  [content |-> content, toolCalls |-> toolCalls, toolResults |-> results]

\* config.guildPermissions: the guilds configured, with their allowedUsers and
\* allowedRoles
guildPermissions ==
  [g \in {"g1"} |-> [allowedUsers |-> {"u1"}, allowedRoles |-> {"admin"}]]

\* The mutant of isUserAllowed: a guild that is not configured is open
isUserAllowedUnlessConfigured(message) ==
  IF message.guild = "" \/ message.member = "" THEN FALSE
  ELSE IF message.guild \notin DOMAIN guildPermissions THEN TRUE
  ELSE IF message.member \in guildPermissions[message.guild].allowedUsers THEN TRUE
  ELSE /\ guildPermissions[message.guild].allowedRoles # {}
       /\ message.roles \cap guildPermissions[message.guild].allowedRoles # {}

\* isUserAllowed; a message without guild or member has "" there
isUserAllowed(message) ==
  IF message.guild = "" \/ message.member = "" THEN FALSE
  ELSE IF message.guild \notin DOMAIN guildPermissions THEN FALSE
  ELSE IF message.member \in guildPermissions[message.guild].allowedUsers THEN TRUE
  ELSE /\ guildPermissions[message.guild].allowedRoles # {}
       /\ message.roles \cap guildPermissions[message.guild].allowedRoles # {}

\* isBotMentioned: message.mentions.users.has(clientId)
isBotMentioned(message) == message.mentioned

\* The early returns of handleMessage before the permission check
returnsEarly(message) ==
  \/ message.authorBot
  \/ ~message.textChannel
  \/ ~message.clientUser
  \/ ~isBotMentioned(message)

permissionDenied == <<"You do not have permission to use this bot.">>

\* new TypingManager(channel)
newTypingManager == [isActive |-> FALSE, interval |-> FALSE, sent |-> 0]

\* TypingManager.start: a typing signal is sent and the interval is set
start(manager) ==
  IF manager.isActive THEN manager
  ELSE [isActive |-> TRUE, interval |-> TRUE, sent |-> manager.sent + 1]

\* The callback of the interval: a typing signal while the manager is active
refresh(manager) ==
  IF manager.isActive THEN [manager EXCEPT !.sent = @ + 1] ELSE manager

\* The mutant of stop: the interval is left running
stopKeepsInterval(manager) ==
  IF ~manager.isActive THEN manager ELSE [manager EXCEPT !.isActive = FALSE]

\* TypingManager.stop: the interval is cleared
stop(manager) ==
  IF ~manager.isActive THEN manager
  ELSE [manager EXCEPT !.isActive = FALSE, !.interval = FALSE]

\* The mutant of storeIfToolUse: every reply is stored
storeAlways(map, sentMessage, r) ==
  storeToolCallsForMessage(map, sentMessage,
                           IF "toolCalls" \in DOMAIN r THEN r.toolCalls ELSE <<>>,
                           IF "toolResults" \in DOMAIN r THEN r.toolResults ELSE <<>>)

\* The end of sendResponse: with a sent message in hand, the tool calls are
\* stored under it when the response has toolCalls and toolResults
storeIfToolUse(map, sentMessage, r) ==
  IF "toolCalls" \in DOMAIN r /\ "toolResults" \in DOMAIN r
  THEN storeToolCallsForMessage(map, sentMessage, r.toolCalls, r.toolResults)
  ELSE map

\* The mutant of replyText: the content is sent as it is
replyTextAsIs(content) == content

\* The text sendSplitMessage replies with for a content no longer than
\* MAX_LENGTH: the content, or the stock sentence when it is blank
replyText(content) ==
  IF Trim(content) = <<>>
  THEN <<"I processed your request but have no specific response.">>
  ELSE content

\* The branch the catch block of generateResponse takes for a failure of the
\* completion request
failureCategory(upstream) ==
  IF upstream.status = 402 THEN "credit limit"
  ELSE IF upstream.status = 429 THEN "rate limit"
  ELSE IF upstream.status = 401 THEN "authentication"
  ELSE IF upstream.status >= 500 THEN "unavailable"
  ELSE "generic"

\* The message of the Error the catch block of generateResponse throws; the
\* words of a message are its tokens
generateResponseError(upstream) ==
  IF upstream.status = 402
  THEN <<"AI", "service", "credit", "limit", "exceeded", ":", "Insufficient",
         "credits", ".", "You", "requested", "up", "to", "maxTokens", "tokens",
         "but", "can", "only", "afford", "unknown", "tokens", ".">>
  ELSE IF upstream.status = 429
  THEN <<"AI", "service", "rate", "limit", "exceeded", ".", "Please", "try",
         "again", "later", ".">>
  ELSE IF upstream.status = 401
  THEN <<"AI", "service", "authentication", "failed", ".", "Please", "check",
         "your", "API", "key", ".">>
  ELSE IF upstream.status >= 500
  THEN <<"AI", "service", "is", "temporarily", "unavailable", ".", "Please",
         "try", "again", "later", ".">>
  ELSE <<"AI", "service", "error", ":">>
         \o (IF upstream.message = <<>> THEN <<"Unknown", "error">>
             ELSE upstream.message)

\* getErrorMessage: the sentence for the first phrase the lower-cased message
\* of the error includes
getErrorMessage(err) ==
  LET errorMessage == ToLowerCase(err.message)
  IN  IF Includes(errorMessage, <<"credit", "limit", "exceeded">>)
      THEN <<"Sorry, I'm currently experiencing credit limitations. Please try again later.">>
      ELSE IF Includes(errorMessage, <<"rate", "limit", "exceeded">>)
      THEN <<"Sorry, I'm being rate limited. Please wait a moment and try again.">>
      ELSE IF Includes(errorMessage, <<"authentication", "failed">>)
      THEN <<"Sorry, there's a configuration issue with my AI service. Please contact the administrator.">>
      ELSE IF Includes(errorMessage, <<"temporarily", "unavailable">>)
      THEN <<"Sorry, the AI service is temporarily unavailable. Please try again later.">>
      ELSE <<"Sorry, I encountered an error while processing your request.">>

\* The options JSON.parse reads from the arguments of an openproject_agent
\* call; max_iterations defaults to 5
agentOptions(arguments) ==
  [task |-> IF Includes(arguments, <<"task:list">>)
            THEN <<"L", "i", "s", "t", " ", "x">> ELSE <<"p", "i", "n", "g">>,
   context |-> IF Includes(arguments, <<"context:now">>) THEN <<"n", "o", "w">> ELSE <<>>,
   max_iterations |-> IF Includes(arguments, <<"max_iterations:1">>) THEN 1
                      ELSE IF Includes(arguments, <<"max_iterations:2">>) THEN 2
                      ELSE 5]

\* The tool requests of the assistant messages of an agent session
RECURSIVE sessionToolCalls(_)
sessionToolCalls(session) ==
  IF session = <<>> THEN <<>>
  ELSE (IF "tool_calls" \in DOMAIN Head(session) THEN Head(session).tool_calls ELSE <<>>)
         \o sessionToolCalls(Tail(session))

(***************************************************************************)
(* convertImageToBase64 and its cache.  A URL is a sequence of tokens: a   *)
(* name and, for some, an extension.                                       *)
(***************************************************************************)

\* The capacity of imageCache (100 in the source)
CacheCapacity == 2

\* Map.delete
MapDelete(map, key) == SelectSeq(map, LAMBDA e : e.key # key)

\* The MIME type guessed from the URL, PNG when no extension is known
mimeTypeOf(url) ==
  LET urlLower == ToLowerCase(url)
  IN  IF Includes(urlLower, <<".jpg">>) \/ Includes(urlLower, <<".jpeg">>) THEN "image/jpeg"
      ELSE IF Includes(urlLower, <<".gif">>) THEN "image/gif"
      ELSE IF Includes(urlLower, <<".webp">>) THEN "image/webp"
      ELSE "image/png"

\* `data:${mimeType};base64,${base64}`
dataUrlOf(url, base64) == <<"data:", mimeTypeOf(url), ";base64,">> \o base64

\* The mutant of cacheInsert: the oldest entry goes only when the cache is
\* over its capacity
cacheInsertWhenOver(map, url, dataUrl) ==
  MapSet(IF Len(map) > CacheCapacity /\ map[1].key # <<>>
         THEN MapDelete(map, map[1].key) ELSE map,
         url, dataUrl)

\* At capacity the first key of the Map is deleted, unless it is falsy; then
\* the entry is set
cacheInsert(map, url, dataUrl) ==
  MapSet(IF Len(map) >= CacheCapacity /\ map[1].key # <<>>
         THEN MapDelete(map, map[1].key) ELSE map,
         url, dataUrl)

(***************************************************************************)
(* OpenProjectApiClient: the filters of listWorkPackages.  A filter value  *)
(* is undefined, null, an array of numbers and strings, or a string; the   *)
(* tokens of a string are the pieces the code looks for (">=", "<",        *)
(* "<>d:", ",", a time of day) and the pieces between them.                *)
(***************************************************************************)

\* String(v) for a number or a string
StringOf(v) == IF "number" \in DOMAIN v THEN NumberToString(v.number) ELSE v.string

\* String.prototype.split with a separator that is one token
RECURSIVE Split(_, _)
Split(s, separator) ==
  IF \A i \in 1..Len(s) : s[i] # separator THEN <<s>>
  ELSE LET i == CHOOSE k \in 1..Len(s) :
                  s[k] = separator /\ \A j \in 1..(k - 1) : s[j] # separator
       IN  <<SubSeq(s, 1, i - 1)>> \o Split(SubSeq(s, i + 1, Len(s)), separator)

\* T\d{2}:\d{2}:\d{2}Z
IsTimeOfDay(token) == token \in {"T00:00:00Z", "T23:59:59Z"}

\* The places where />=(.+?)T\d{2}:\d{2}:\d{2}Z<(.+?)T\d{2}:\d{2}:\d{2}Z/
\* matches: the ">=", the first time of day and the second
ConcatenatedMatches(s) ==
  {m \in (1..Len(s)) \X (1..Len(s)) \X (1..Len(s)) :
     /\ s[m[1]] = ">="
     /\ m[2] >= m[1] + 2 /\ IsTimeOfDay(s[m[2]])
     /\ m[2] + 1 <= Len(s) /\ s[m[2] + 1] = "<"
     /\ m[3] >= m[2] + 3 /\ IsTimeOfDay(s[m[3]])}

\* The match the regular expression reports: the leftmost, each group as
\* short as it can be
ConcatenatedMatch(s) ==
  CHOOSE m \in ConcatenatedMatches(s) :
    \A n \in ConcatenatedMatches(s) :
      \/ m[1] < n[1]
      \/ m[1] = n[1] /\ m[2] < n[2]
      \/ m[1] = n[1] /\ m[2] = n[2] /\ m[3] <= n[3]

filterObject(key, operator, values) ==
  [key |-> key, operator |-> operator, values |-> values]

DateKeys == {"createdAt", "updatedAt", "startDate", "dueDate"}

\* The filter objects pushed for a date key: one, or none
dateFilters(key, stringValue) ==
  IF Includes(stringValue, <<"<>d:">>)
  THEN LET parts == Split(stringValue, "<>d:")
       IN  IF Len(parts) = 2 /\ parts[2] # <<>>
           THEN LET dates == Split(parts[2], ",")
                IN  IF Len(dates) >= 2 /\ dates[1] # <<>> /\ dates[2] # <<>>
                    THEN <<filterObject(key, "<>d", <<dates[1], dates[2]>>)>>
                    ELSE <<>>
           ELSE <<>>
  ELSE IF Includes(stringValue, <<">=">>) /\ Includes(stringValue, <<"<">>)
  THEN IF ConcatenatedMatches(stringValue) # {}
       THEN LET m == ConcatenatedMatch(stringValue)
                startDate == SubSeq(stringValue, m[1] + 1, m[2] - 1)
                endDate == SubSeq(stringValue, m[2] + 2, m[3] - 1)
            IN  <<filterObject(key, "<>d", <<startDate \o <<"T00:00:00Z">>,
                                             endDate \o <<"T23:59:59Z">>>>)>>
       ELSE <<>>
  ELSE IF stringValue # <<>> /\ Head(stringValue) = ">="
  THEN <<filterObject(key, ">=", <<Tail(stringValue)>>)>>
  ELSE IF stringValue # <<>> /\ Head(stringValue) = "<"
  THEN <<filterObject(key, "<", <<Tail(stringValue)>>)>>
  ELSE <<filterObject(key, "=d", <<stringValue>>)>>

\* The filter objects pushed for one entry of the filters object
entryFilters(key, value) ==
  IF value = Undefined \/ value = Null THEN <<>>
  ELSE IF "array" \in DOMAIN value
  THEN <<filterObject(key, "=", [i \in 1..Len(value.array) |-> StringOf(value.array[i])])>>
  ELSE LET stringValue == StringOf(value)
       IN  IF key \in {"subject", "description"}
           THEN <<filterObject(key, "**", <<stringValue>>)>>
           ELSE IF key \in DateKeys THEN dateFilters(key, stringValue)
           ELSE <<filterObject(key, "=", <<stringValue>>)>>

\* filterArray after the forEach over Object.entries(filters)
RECURSIVE filterArrayOf(_)
filterArrayOf(entries) ==
  IF entries = <<>> THEN <<>>
  ELSE entryFilters(entries[1].key, entries[1].value) \o filterArrayOf(Tail(entries))

\* buildFilterQuery: the empty string, or the one parameter filters
buildFilterQuery(entries) ==
  IF filterArrayOf(entries) = <<>> THEN <<>>
  ELSE <<[name |-> "filters", value |-> filterArrayOf(entries)]>>

\* listWorkPackages up to makeRequest: the endpoint requested
listWorkPackages(filters) ==
  LET query == IF filters.defined THEN buildFilterQuery(filters.entries) ELSE <<>>
  IN  [path |-> "/work_packages", query |-> query]

(***************************************************************************)
(* State                                                                   *)
(***************************************************************************)

VARIABLES
  toolCallsMap,   \* ToolCallsStore.instance.toolCallsMap
  last            \* the last operation run on the ledger or the assembler,
                  \* with its arguments and what it returned

ledgerVars == <<toolCallsMap, last>>

VARIABLES
  agentPc,          \* where execute stands: "idle", "loop", "execute", "after", "done"
  task,             \* options.task
  maxIterations,    \* options.max_iterations
  registry,         \* the names in openProjectRegistry.tools
  messages,         \* the agent session's message sequence
  iterationCount,
  finalResponse,
  foundUserIdButNeedsList,
  response,         \* the completion response being handled
  toolResults,      \* the results of the turn being executed
  toolIndex,        \* the position in response.tool_calls of the next call
  returned,         \* what execute returned (Null while it runs)
  replies,          \* every completion request made so far, by what came back
  executed          \* the invocations whose tool.execute was called, in order, each
                    \* with the iteration it belongs to and whether it threw

agentVars ==
  <<agentPc, task, maxIterations, registry, messages, iterationCount, finalResponse,
    foundUserIdButNeedsList, response, toolResults, toolIndex, returned, replies,
    executed>>

NoResponse == [content |-> Null, tool_calls |-> <<>>]

AgentIdle ==
  /\ agentPc = "idle"
  /\ task = <<>>
  /\ maxIterations = 0
  /\ registry = {}
  /\ messages = <<>>
  /\ iterationCount = 0
  /\ finalResponse = <<>>
  /\ foundUserIdButNeedsList = FALSE
  /\ response = NoResponse
  /\ toolResults = <<>>
  /\ toolIndex = 0
  /\ returned = Null
  /\ replies = <<>>
  /\ executed = <<>>

VARIABLES
  pipePc,         \* where handleMessage stands: "idle", "process", "generate",
                  \* "tools", "agent", "send", "error"
  channels,       \* the messages of each text channel, oldest first
  channel,        \* message.channel of the mention being handled
  trigger,        \* the mention being handled
  aiMessages,     \* what convertToAIMessages returned for this mention
  outerResponse,  \* the first completion response of processUserMessage
  outerResults,   \* the results array of processToolCalls
  outerIndex,     \* the position in response.tool_calls of the next call
  reply,          \* what processUserMessage returned
  nested,         \* the agent sessions run for the latest mention: the
                  \* iterations each took and the tool requests made inside it
  typing,         \* the TypingManager of the latest mention: isActive, whether
                  \* its interval is set, and the typing signals it has sent
  failure,        \* the failure of the completion request that made
                  \* generateResponse throw, if one did
  error,          \* the Error the catch block of handleMessage has caught
  event,          \* what the latest MessageCreate event says of its message:
                  \* author, kind of channel, mentions, guild and member
  requests        \* the completion requests processUserMessage has made for
                  \* the mention being handled, each with what came back

pipeVars ==
  <<pipePc, channels, channel, trigger, aiMessages, outerResponse, outerResults,
    outerIndex, reply, nested, typing, failure, error, event, requests>>

Channels == {"general", "dev"}

NoMessage == [id |-> <<>>]

NoReply == [content |-> <<>>]

NoFailure == [status |-> 0, message |-> <<>>]

NoError == [message |-> <<>>]

NoEvent ==
  [authorBot |-> FALSE, textChannel |-> FALSE, clientUser |-> FALSE, mentioned |-> FALSE,
   guild |-> "", member |-> "", roles |-> {}]

\* No mention is being handled
PipelineIdle ==
  /\ pipePc = "idle"
  /\ channel = ""
  /\ trigger = NoMessage
  /\ aiMessages = <<>>
  /\ outerResponse = NoResponse
  /\ outerResults = <<>>
  /\ outerIndex = 0
  /\ reply = NoReply
  /\ nested = <<>>
  /\ typing = newTypingManager
  /\ failure = NoFailure
  /\ error = NoError
  /\ requests = <<>>
  /\ event = NoEvent

VARIABLES
  filters,        \* the argument of the call of listWorkPackages at hand
  endpoint        \* the endpoint the call has requested, once it has

clientVars == <<filters, endpoint>>

NoFilters == [defined |-> FALSE, entries |-> <<>>]

NoEndpoint == [path |-> "", query |-> <<>>]

ClientIdle == filters = NoFilters /\ endpoint = NoEndpoint

\* The callers whose image conversions may be in flight at the same time
Callers == {"p1", "p2"}

VARIABLES
  imageCache,     \* the Map imageCache: [key, data] entries in insertion order
  conversions     \* for each caller, where its call of convertImageToBase64
                  \* stands ("idle", "fetch", "read", "done"), its url, what it
                  \* returned and how, and its firstKey, if it took one

cacheVars == <<imageCache, conversions>>

NoConversion ==
  [pc |-> "idle", url |-> <<>>, result |-> <<>>, outcome |-> "", firstKey |-> <<>>]

VARIABLES
  delivery        \* the call of sendSplitMessage at hand: where it stands
                  \* ("idle", "parts", "done"), its content, the parts still
                  \* to send, the messages sent so far and what it returned

NoDelivery ==
  [pc |-> "idle", content |-> <<>>, parts |-> <<>>, sent |-> <<>>, returned |-> <<>>]

VARIABLES
  anchorFile,     \* anchorMessages.json: the anchor message id of each channel
                  \* that has one
  anchorCalls     \* for each caller, where its call of setAnchorMessageId or
                  \* clearAnchorMessageId stands ("idle", "access", "create",
                  \* "read", "write", "done"), its arguments and its config

anchorVars == <<anchorFile, anchorCalls>>

\* An AnchorMessagesConfig without a key: "" stands for a channel that has none
NoAnchors == [c \in Channels |-> ""]

\* Before the first call there is no anchorMessages.json
NoAnchorFile == [exists |-> FALSE, config |-> NoAnchors]

NoAnchorCall ==
  [pc |-> "idle", op |-> "", channelId |-> "", messageId |-> "", config |-> NoAnchors]

utilVars == <<cacheVars, delivery, anchorVars>>

UtilIdle ==
  /\ imageCache = <<>>
  /\ conversions = [p \in Callers |-> NoConversion]
  /\ delivery = NoDelivery
  /\ anchorFile = NoAnchorFile
  /\ anchorCalls = [p \in Callers |-> NoAnchorCall]

vars == <<ledgerVars, agentVars, pipeVars, clientVars, utilVars>>

(***************************************************************************)
(* Inputs of the ledger and assembler specifications                       *)
(***************************************************************************)

\* The largest number of entries the ledger holds in the model
MaxEntries == 2

\* The longest list of recent messages handed to cleanupOldToolCalls
MaxRecent == 2

\* The longest window handed to convertToAIMessages
MaxWindow == 2

MessageIds == {<<"1">>, <<"1", "1">>}

\* The bot replies the ledger is keyed by: two share an id, and two have
\* the same digits in id and creation time taken together
LedgerMessages ==
  {BotReply(it[1], it[2], <<"re:">> \o it[1] \o <<"@">> \o NumberToString(it[2])) :
     it \in {<<<<"1">>, 1>>, <<<<"1">>, 11>>, <<<<"1", "1">>, 1>>}}

dateCall == ToolCall("call_1", "function", "get_date_time", <<"{", "}">>)

agentCall == ToolCall("call_2", "function", "openproject_agent", <<"{", "}">>)

dateResult == ToolResult("call_1", "get_date_time", <<"Monday">>)

agentResult == ToolResult("call_2", "openproject_agent", <<"**OpenProject Agent Results**">>)

\* The toolCalls and toolResults handed to storeToolCallsForMessage; their
\* lengths need not agree
StoredPairs ==
  { <<<<>>, <<>>>>,
    <<<<dateCall>>, <<dateResult>>>>,
    <<<<dateCall, agentCall>>, <<dateResult>>>>,
    <<<<agentCall>>, <<agentResult, dateResult>>>> }

imageAttachment == [name |-> "cat.png", contentType |-> <<"image/", "png">>]

\* The messages a window is drawn from: user turns, bot replies that are or
\* are not in the ledger, and bot messages with no text
WindowMessages ==
  LedgerMessages \cup
  { UserText(<<"2">>, 2, <<"h", "i">>),
    [UserText(<<"3">>, 3, <<>>) EXCEPT !.attachments = <<imageAttachment>>],
    BotReply(<<"4">>, 4, <<>>),
    [BotReply(<<"1">>, 1, <<>>) EXCEPT !.stickers = 1],
    [BotReply(<<"1", "1">>, 1, <<>>) EXCEPT !.embeds = 1] }

Queries == {<<>>, <<" ">>, <<" ", "f", " ", "x", " ">>}

(***************************************************************************)
(* Inputs of the agent specification                                       *)
(***************************************************************************)

Tasks == {<<"L", "i", "s", "t", " ", "x">>, <<"p", "i", "n", "g">>}

Contexts == {<<>>, <<"n", "o", "w">>}

validArgs == <<"{", "}">>

brokenArgs == <<"{">>

\* The tool requests a completion may come back with: a registered tool, a
\* call whose arguments do not parse, tools of the outer registry, a call
\* that is no function call
AgentToolCallLists ==
  { <<ToolCall("call_1", "function", "search_users", validArgs)>>,
    <<ToolCall("call_1", "function", "list_work_packages", brokenArgs),
      ToolCall("call_2", "function", "search_users", validArgs)>>,
    <<ToolCall("call_1", "function", "openproject_agent", validArgs),
      ToolCall("call_2", "function", "get_date_time", validArgs)>>,
    <<ToolCall("call_1", "custom", "list_projects", validArgs),
      ToolCall("call_2", "function", "list_projects", validArgs)>> }

PlainResponses ==
  {[content |-> c, tool_calls |-> <<>>] :
     c \in {Null, Text(<<>>), Text(<<"Here are the results">>)}}

\* A tool request comes with no content, or with an empty one
ToolResponses ==
  {[content |-> Null, tool_calls |-> tc] : tc \in AgentToolCallLists}
    \cup {[content |-> Text(<<>>),
            tool_calls |-> <<ToolCall("call_1", "function", "search_users", validArgs)>>]}

\* What a registered tool's execute may do: return a string or throw
ToolOutcomes(name) ==
  IF name = "search_users"
  THEN {Text(<<"Best Match", "User ID:", "8">>), Text(<<"No users found">>), Null}
  ELSE {Text(<<"ok">>), Null}

(***************************************************************************)
(* Inputs of the pipeline specification                                    *)
(***************************************************************************)

\* The largest number of mentions handled in a run of the model
MaxMentions == 2

\* The largest number of typing signals a typing manager sends in the model
MaxTyping == 2

\* A member listed in allowedUsers mentions the bot in a text channel
PermittedEvent ==
  [authorBot |-> FALSE, textChannel |-> TRUE, clientUser |-> TRUE, mentioned |-> TRUE,
   guild |-> "g1", member |-> "u1", roles |-> {}]

\* The MessageCreate events of the model: the permitted mention, a mention by
\* a member with an allowed role, and messages that fail one of the checks
Events ==
  {PermittedEvent,
   [PermittedEvent EXCEPT !.member = "u2", !.roles = {"admin"}],
   [PermittedEvent EXCEPT !.member = "u2", !.roles = {"member"}],
   [PermittedEvent EXCEPT !.guild = "g2", !.roles = {"admin"}],
   [PermittedEvent EXCEPT !.member = ""],
   [PermittedEvent EXCEPT !.authorBot = TRUE],
   [PermittedEvent EXCEPT !.textChannel = FALSE],
   [PermittedEvent EXCEPT !.mentioned = FALSE]}

\* The query /debug_history assembles the window with
debugQuery == <<"debug_history command">>

\* What a mention says: a question after the mention, or the mention alone
QuestionContent == <<"<@42>", " ", "h", "i">>

MentionContents == {QuestionContent, <<"<@!42>", " ">>}

nestedArgs == <<"{", "task:ping", "max_iterations:1", "}">>

\* The tool requests the first completion may come back with: the nested
\* agent alone, a call that is no function call before a function call, a
\* tool the outer registry does not hold before a call whose arguments do
\* not parse
OuterToolCallLists ==
  { <<ToolCall("call_a", "function", "openproject_agent", nestedArgs)>>,
    <<ToolCall("call_a", "custom", "get_date_time", validArgs),
      ToolCall("call_b", "function", "get_date_time", validArgs)>>,
    <<ToolCall("call_a", "function", "list_projects", validArgs),
      ToolCall("call_b", "function", "get_date_time", brokenArgs)>> }

OuterResponses ==
  {[content |-> c, tool_calls |-> <<>>] : c \in {Null, Text(<<"Hello">>), Text(<<" ">>)}}
    \cup {[content |-> Null, tool_calls |-> tc] : tc \in OuterToolCallLists}

\* The failures of a completion request: the status of the response and the
\* message of the error the client raises for it
UpstreamFailures ==
  [status : {401, 402, 429, 500}, message : {<<"Provider", "returned", "error">>}]
    \cup [status : {400},
          message : {<<"Provider", "returned", "error">>, <<"Rate", "limit", "exceeded">>}]

GenericFailures == {upstream \in UpstreamFailures : failureCategory(upstream) = "generic"}

\* The error message.reply rejects with
DiscordError == [message |-> <<"Missing", "Permissions">>]

\* What dateTimeTool.execute may do: return a string or throw (a time zone
\* Intl does not know)
DateOutcomes == {Text(<<"Monday">>), Null}

(***************************************************************************)
(* Inputs of the filter specification                                      *)
(***************************************************************************)

\* The largest number of entries of a filters object
MaxFilters == 2

FilterKeys == {"status", "subject", "createdAt"}

\* Values of a filter: left undefined, an array, a plain string, and the
\* strings a date filter may hold: a range, a range without its end, the
\* two one-sided forms, a date alone, and the two forms that hold both ">="
\* and "<", with and without times of day
FilterValues ==
  {Undefined,
   [array |-> <<[number |-> 14], [string |-> <<"open">>]>>],
   [string |-> <<"open">>],
   [string |-> <<"<>d:", "2023-01-01", ",", "2023-12-31">>],
   [string |-> <<"<>d:", "2023-01-01">>],
   [string |-> <<">=", "2023-01-01">>],
   [string |-> <<"<", "2023-12-31">>],
   [string |-> <<"2023-01-01">>],
   [string |-> <<">=", "2023-01-01", "T00:00:00Z", "<", "2023-12-31", "T23:59:59Z">>],
   [string |-> <<">=", "2023-01-01", "<", "2023-12-31">>]}

FilterEntries == [key : FilterKeys, value : FilterValues]

\* The filters objects: no argument, or up to MaxFilters entries with
\* different keys
FilterInputs ==
  {NoFilters} \cup
  {[defined |-> TRUE, entries |-> s] :
     s \in {q \in SeqsUpTo(FilterEntries, MaxFilters) :
              \A i, j \in 1..Len(q) : i # j => q[i].key # q[j].key}}

(***************************************************************************)
(* Operations on the ledger                                                *)
(***************************************************************************)

StoreToolCallsForMessage(message, toolCalls, results) ==
  /\ MapHas(toolCallsMap, generateMessageKey(message)) \/ Len(toolCallsMap) < MaxEntries
  /\ toolCallsMap' = storeToolCallsForMessage(toolCallsMap, message, toolCalls, results)
  /\ last' = [op |-> "store", message |-> message, toolCalls |-> toolCalls,
              toolResults |-> results,
              existed |-> MapHas(toolCallsMap, generateMessageKey(message))]
  /\ UNCHANGED <<agentVars, pipeVars, clientVars, utilVars>>

GetToolCallsForMessage(message) ==
  /\ last' = [op |-> "get", message |-> message,
              result |-> getToolCallsForMessage(toolCallsMap, message)]
  /\ UNCHANGED toolCallsMap
  /\ UNCHANGED <<agentVars, pipeVars, clientVars, utilVars>>

GetToolCallsByMessageId(messageId) ==
  /\ last' = [op |-> "getById", messageId |-> messageId,
              result |-> getToolCallsByMessageId(toolCallsMap, messageId)]
  /\ UNCHANGED toolCallsMap
  /\ UNCHANGED <<agentVars, pipeVars, clientVars, utilVars>>

CleanupOldToolCalls(recentMessages) ==
  /\ toolCallsMap' = cleanupOldToolCalls(toolCallsMap, recentMessages)
  /\ last' = [op |-> "cleanup", recentMessages |-> recentMessages,
              before |-> toolCallsMap]
  /\ UNCHANGED <<agentVars, pipeVars, clientVars, utilVars>>

\* convertToAIMessages reads the ledger and leaves it alone; the assembled
\* sequence is what it returns
ConvertToAIMessages(window, query) ==
  /\ last.op # "convert"
  /\ last' = [op |-> "convert", messages |-> window, query |-> query,
              result |-> convertToAIMessages(toolCallsMap, window, query)]
  /\ UNCHANGED toolCallsMap
  /\ UNCHANGED <<agentVars, pipeVars, clientVars, utilVars>>

Store ==
  \E message \in LedgerMessages, pair \in StoredPairs :
    StoreToolCallsForMessage(message, pair[1], pair[2])

Get == \E message \in LedgerMessages : GetToolCallsForMessage(message)

GetById == \E messageId \in MessageIds : GetToolCallsByMessageId(messageId)

Cleanup ==
  \E recentMessages \in DistinctSeqs(LedgerMessages, MaxRecent) :
    CleanupOldToolCalls(recentMessages)

\* A window is assembled once the ledger has been filled: the assembler does
\* not write the ledger, so nothing new follows it
AssembleStore == last.op # "convert" /\ Store

Assemble ==
  \E window \in DistinctSeqs(WindowMessages, MaxWindow), query \in Queries :
    ConvertToAIMessages(window, query)

(***************************************************************************)
(* Steps of openProjectAgentTool.execute                                   *)
(***************************************************************************)

\* execute is entered: the registry and the AI service are constructed and
\* the session is seeded with the task (and the context, when given)
AgentStart(t, context, budget) ==
  /\ agentPc = "idle"
  /\ agentPc' = "loop"
  /\ task' = t
  /\ maxIterations' = budget
  /\ registry' = OpenProjectTools
  /\ messages' = <<[role |-> "user",
                    content |-> Text(<<"Please help me with this OpenProject task: ">> \o t
                      \o (IF context # <<>> THEN <<"Context: ">> \o context ELSE <<>>))]>>
  /\ iterationCount' = 0
  /\ finalResponse' = <<>>
  /\ foundUserIdButNeedsList' = FALSE
  /\ UNCHANGED <<response, toolResults, toolIndex, returned, replies, executed>>

\* The mutant of AgentRequest: the counter goes up only when the response
\* requests tools
AgentRequestCountsTurns(r) ==
  /\ agentPc = "loop"
  /\ loopContinues(iterationCount, maxIterations, foundUserIdButNeedsList)
  /\ iterationCount' = iterationCount + (IF Len(r.tool_calls) > 0 THEN 1 ELSE 0)
  /\ response' = r
  /\ IF Len(r.tool_calls) > 0
     THEN /\ replies' = Append(replies, "tools")
          /\ messages' = Append(messages,
               [role |-> "assistant", content |-> r.content, tool_calls |-> r.tool_calls])
          /\ toolResults' = <<>>
          /\ toolIndex' = 1
          /\ agentPc' = "execute"
          /\ UNCHANGED finalResponse
     ELSE /\ replies' = Append(replies, "text")
          /\ finalResponse' =
               contentOr(r.content, <<"OpenProject task completed with no specific results.">>)
          /\ agentPc' = "after"
          /\ UNCHANGED <<messages, toolResults, toolIndex>>
  /\ UNCHANGED <<task, maxIterations, registry, foundUserIdButNeedsList, returned, executed>>
  /\ UNCHANGED <<ledgerVars, pipeVars, clientVars, utilVars>>

\* One pass of the loop head: the counter goes up and a completion is
\* requested; tool requests open a turn, plain text ends the loop
AgentRequest(r) ==
  /\ agentPc = "loop"
  /\ loopContinues(iterationCount, maxIterations, foundUserIdButNeedsList)
  /\ iterationCount' = iterationCount + 1
  /\ response' = r
  /\ IF Len(r.tool_calls) > 0
     THEN /\ replies' = Append(replies, "tools")
          /\ messages' = Append(messages,
               [role |-> "assistant", content |-> r.content, tool_calls |-> r.tool_calls])
          /\ toolResults' = <<>>
          /\ toolIndex' = 1
          /\ agentPc' = "execute"
          /\ UNCHANGED finalResponse
     ELSE /\ replies' = Append(replies, "text")
          /\ finalResponse' =
               contentOr(r.content, <<"OpenProject task completed with no specific results.">>)
          /\ agentPc' = "after"
          /\ UNCHANGED <<messages, toolResults, toolIndex>>
  /\ UNCHANGED <<task, maxIterations, registry, foundUserIdButNeedsList, returned, executed>>
  /\ UNCHANGED <<ledgerVars, pipeVars, clientVars, utilVars>>

\* generateResponse throws: the outer catch returns the error text
AgentRequestFails ==
  /\ agentPc \in {"loop", "after"}
  /\ IF agentPc = "loop"
     THEN /\ loopContinues(iterationCount, maxIterations, foundUserIdButNeedsList)
          /\ iterationCount' = iterationCount + 1
     ELSE /\ needsFinalResponse(finalResponse, iterationCount, maxIterations)
          /\ UNCHANGED iterationCount
  /\ replies' = Append(replies, "error")
  /\ returned' = Text(agentErrorReturn("AI service error"))
  /\ agentPc' = "done"
  /\ UNCHANGED <<task, maxIterations, registry, messages, finalResponse,
                 foundUserIdButNeedsList, response, toolResults, toolIndex, executed>>
  /\ UNCHANGED <<ledgerVars, pipeVars, clientVars, utilVars>>

\* The loop condition fails
AgentLoopExit ==
  /\ agentPc = "loop"
  /\ ~loopContinues(iterationCount, maxIterations, foundUserIdButNeedsList)
  /\ agentPc' = "after"
  /\ UNCHANGED <<task, maxIterations, registry, messages, iterationCount, finalResponse,
                 foundUserIdButNeedsList, response, toolResults, toolIndex, returned,
                 replies, executed>>
  /\ UNCHANGED <<ledgerVars, pipeVars, clientVars, utilVars>>

\* One pass of the tool loop.  A call that is no function call is passed
\* over.  Otherwise the arguments are parsed and the registry is asked to
\* execute the tool; a parse failure, an unknown name and a throwing execute
\* all end in the catch block, which records an error result.
AgentExecuteTool ==
  /\ agentPc = "execute"
  /\ toolIndex <= Len(response.tool_calls)
  /\ toolIndex' = toolIndex + 1
  /\ LET toolCall == response.tool_calls[toolIndex]
         name == toolCall.function.name
     IN  \/ /\ toolCall.type # "function"
            /\ UNCHANGED <<toolResults, executed>>
         \/ /\ toolCall.type = "function"
            /\ ~JsonParses(toolCall.function.arguments)
            /\ toolResults' = Append(toolResults, errorResult(toolCall, "Unexpected end of JSON input"))
            /\ UNCHANGED executed
         \/ /\ toolCall.type = "function"
            /\ JsonParses(toolCall.function.arguments)
            /\ ~registryHas(registry, name)
            /\ toolResults' = Append(toolResults, errorResult(toolCall, "OpenProject tool not found"))
            /\ UNCHANGED executed
         \/ /\ toolCall.type = "function"
            /\ JsonParses(toolCall.function.arguments)
            /\ registryHas(registry, name)
            /\ \E outcome \in ToolOutcomes(name) :
                 /\ executed' = Append(executed,
                                       [iteration |-> iterationCount, id |-> toolCall.id,
                                        name |-> name, threw |-> outcome = Null])
                 /\ toolResults' =
                      Append(toolResults,
                             IF outcome = Null THEN errorResult(toolCall, "request failed")
                             ELSE okResult(toolCall, outcome.text))
  /\ UNCHANGED <<agentPc, task, maxIterations, registry, messages, iterationCount,
                 finalResponse, foundUserIdButNeedsList, response, returned, replies>>
  /\ UNCHANGED <<ledgerVars, pipeVars, clientVars, utilVars>>

\* The turn ends: the extension flag is set when a search_users result
\* carries a user id, the results join the session, and the summary request
\* is pushed when the counter stands at the ceiling
AgentFinishTurn ==
  /\ agentPc = "execute"
  /\ toolIndex > Len(response.tool_calls)
  /\ LET found == foundUserIdButNeedsList
                    \/ foundUserId(response.tool_calls, toolResults, task)
     IN  /\ foundUserIdButNeedsList' = found
         /\ messages' = messages \o toolResults
                          \o summaryMessages(iterationCount, maxIterations, found)
  /\ agentPc' = "loop"
  /\ UNCHANGED <<task, maxIterations, registry, iterationCount, finalResponse, response,
                 toolResults, toolIndex, returned, replies, executed>>
  /\ UNCHANGED <<ledgerVars, pipeVars, clientVars, utilVars>>

\* After the loop: without a final response and with the budget used, one
\* more completion is requested and its content taken, whatever it asks for
AgentFinalRequest(r) ==
  /\ agentPc = "after"
  /\ needsFinalResponse(finalResponse, iterationCount, maxIterations)
  /\ replies' = Append(replies, IF Len(r.tool_calls) > 0 THEN "tools" ELSE "text")
  /\ returned' =
       Text(agentReturn(
              contentOr(r.content, <<"OpenProject task completed after maximum iterations.">>),
              Cardinality(registry), iterationCount))
  /\ finalResponse' =
       contentOr(r.content, <<"OpenProject task completed after maximum iterations.">>)
  /\ agentPc' = "done"
  /\ UNCHANGED <<task, maxIterations, registry, messages, iterationCount,
                 foundUserIdButNeedsList, response, toolResults, toolIndex, executed>>
  /\ UNCHANGED <<ledgerVars, pipeVars, clientVars, utilVars>>

\* After the loop, with a final response in hand (or the budget not used)
AgentReturn ==
  /\ agentPc = "after"
  /\ ~needsFinalResponse(finalResponse, iterationCount, maxIterations)
  /\ returned' = Text(agentReturn(finalResponse, Cardinality(registry), iterationCount))
  /\ agentPc' = "done"
  /\ UNCHANGED <<task, maxIterations, registry, messages, iterationCount, finalResponse,
                 foundUserIdButNeedsList, response, toolResults, toolIndex, replies,
                 executed>>
  /\ UNCHANGED <<ledgerVars, pipeVars, clientVars, utilVars>>

Start ==
  \E t \in Tasks, context \in Contexts, budget \in 1..MaxBudget :
    AgentStart(t, context, budget) /\ UNCHANGED <<ledgerVars, pipeVars, clientVars, utilVars>>

Request == \E r \in PlainResponses \cup ToolResponses : AgentRequest(r)

FinalRequest == \E r \in PlainResponses \cup ToolResponses : AgentFinalRequest(r)

NextAgent ==
  \/ Start
  \/ Request
  \/ AgentRequestFails
  \/ AgentLoopExit
  \/ AgentExecuteTool
  \/ AgentFinishTurn
  \/ FinalRequest
  \/ AgentReturn

(***************************************************************************)
(* Steps of handleMessage                                                  *)
(***************************************************************************)

\* The places of the messages of all channels
MessagePlaces == UNION {{<<c, i>> : i \in 1..Len(channels[c])} : c \in Channels}

\* The mentions handled so far
Mentions == Cardinality({p \in MessagePlaces : ~channels[p[1]][p[2]].bot})

\* The id of the next message created, which is the time of its creation
NextMessageId == Cardinality(MessagePlaces) + 1

\* The locals of a finished handleMessage are gone (the record of the agent
\* sessions stays until the next mention)
PipelineReset ==
  /\ pipePc' = "idle"
  /\ channel' = ""
  /\ trigger' = NoMessage
  /\ aiMessages' = <<>>
  /\ outerResponse' = NoResponse
  /\ outerResults' = <<>>
  /\ outerIndex' = 0
  /\ reply' = NoReply
  /\ typing' = stop(typing)
  /\ failure' = NoFailure
  /\ error' = NoError
  /\ requests' = <<>>
  /\ UNCHANGED event
  /\ UNCHANGED nested

\* The locals of a finished execute are gone
AgentReset ==
  /\ agentPc' = "idle"
  /\ task' = <<>>
  /\ maxIterations' = 0
  /\ registry' = {}
  /\ messages' = <<>>
  /\ iterationCount' = 0
  /\ finalResponse' = <<>>
  /\ foundUserIdButNeedsList' = FALSE
  /\ response' = NoResponse
  /\ toolResults' = <<>>
  /\ toolIndex' = 0
  /\ returned' = Null
  /\ replies' = <<>>
  /\ executed' = <<>>

\* A MessageCreate event and handleMessage up to its first await.  A message
\* of the bot itself is in the channel already, and a message outside a text
\* channel is in none of the channels of the model; any other message is the
\* newest of its channel.  The handler returns early, or replies that the
\* author has no permission, or starts the typing manager and goes on.
HandleMessage(ch, content, m) ==
  /\ pipePc = "idle"
  /\ Mentions < MaxMentions
  /\ event' = m
  /\ UNCHANGED requests
  /\ LET message == UserText(NumberToString(NextMessageId), NextMessageId, content)
         denial == BotReply(NumberToString(NextMessageId + 1), NextMessageId + 1,
                            permissionDenied)
     IN  IF returnsEarly(m)
         THEN /\ channels' = IF m.authorBot \/ ~m.textChannel THEN channels
                             ELSE [channels EXCEPT ![ch] = Append(@, message)]
              /\ UNCHANGED <<pipePc, channel, trigger, nested, typing>>
         ELSE IF ~isUserAllowed(m)
         THEN /\ channels' = [channels EXCEPT ![ch] = @ \o <<message, denial>>]
              /\ UNCHANGED <<pipePc, channel, trigger, nested, typing>>
         ELSE /\ trigger' = message
              /\ channels' = [channels EXCEPT ![ch] = Append(@, message)]
              /\ channel' = ch
              /\ pipePc' = "process"
              /\ nested' = <<>>
              /\ typing' = start(newTypingManager)
  /\ UNCHANGED <<failure, error>>
  /\ UNCHANGED <<aiMessages, outerResponse, outerResults, outerIndex, reply>>
  /\ UNCHANGED <<ledgerVars, agentVars, clientVars, utilVars>>

\* processUserMessage up to the first completion request: the window is
\* fetched (an empty window when the fetch fails), the ledger is cleaned up
\* against it and the window is assembled
ProcessUserMessage ==
  /\ pipePc = "process"
  /\ \E recentMessages \in
          {fetchRecentMessages(channels[channel], messageHistoryLimit), <<>>} :
       /\ toolCallsMap' = cleanupOldToolCalls(toolCallsMap, recentMessages)
       /\ aiMessages' = convertToAIMessages(toolCallsMap', recentMessages,
                                            extractQueryFromMention(trigger.content))
  /\ pipePc' = "generate"
  /\ UNCHANGED <<channels, channel, trigger, outerResponse, outerResults, outerIndex,
                 reply, nested>>
  /\ UNCHANGED <<typing, failure, error>>
  /\ UNCHANGED <<event, requests>>
  /\ UNCHANGED <<last, agentVars, clientVars, utilVars>>

\* The first completion comes back: tool requests go to handleToolCalls,
\* anything else is the reply
GenerateResponse(r) ==
  /\ pipePc = "generate"
  /\ outerResponse' = r
  /\ IF Len(r.tool_calls) > 0
     THEN /\ pipePc' = "tools"
          /\ outerIndex' = 1
          /\ outerResults' = <<>>
          /\ UNCHANGED reply
     ELSE /\ pipePc' = "send"
          /\ reply' = textResponse(contentOrNoResponse(r.content))
          /\ UNCHANGED <<outerIndex, outerResults>>
  /\ UNCHANGED <<channels, channel, trigger, aiMessages, nested>>
  /\ UNCHANGED <<typing, failure, error>>
  /\ requests' = Append(requests, [ok |-> TRUE, response |-> r])
  /\ UNCHANGED event
  /\ UNCHANGED <<ledgerVars, agentVars, clientVars, utilVars>>

\* The mutant of GenerateFails: the failed request is made again
GenerateFailsAndRetries(upstream) ==
  /\ \/ pipePc = "generate"
     \/ pipePc = "tools" /\ outerIndex > Len(outerResponse.tool_calls)
  /\ failure' = upstream
  /\ error' = [message |-> generateResponseError(upstream)]
  /\ UNCHANGED <<pipePc, channels, channel, trigger, aiMessages, outerResponse,
                 outerResults, outerIndex, reply, nested, typing>>
  /\ UNCHANGED <<event, requests>>
  /\ UNCHANGED <<ledgerVars, agentVars, clientVars, utilVars>>


\* generateResponse throws, for the first request or for the follow-up one
GenerateFails(upstream) ==
  /\ \/ pipePc = "generate"
     \/ pipePc = "tools" /\ outerIndex > Len(outerResponse.tool_calls)
  /\ pipePc' = "error"
  /\ failure' = upstream
  /\ error' = [message |-> generateResponseError(upstream)]
  /\ UNCHANGED <<channels, channel, trigger, aiMessages, outerResponse, outerResults,
                 outerIndex, reply, nested, typing>>
  /\ requests' = Append(requests, [ok |-> FALSE, response |-> NoResponse])
  /\ UNCHANGED event
  /\ UNCHANGED <<ledgerVars, agentVars, clientVars, utilVars>>

\* One pass of the loop of processToolCalls for a call that does not reach
\* the nested agent.  A call that is no function call is passed over; a
\* parse failure, an unknown name and a throwing execute end in the catch
\* block, which pushes an error result.
ProcessToolCall ==
  /\ pipePc = "tools"
  /\ outerIndex <= Len(outerResponse.tool_calls)
  /\ outerIndex' = outerIndex + 1
  /\ LET call == outerResponse.tool_calls[outerIndex]
         name == call.function.name
     IN  \/ /\ call.type # "function"
            /\ UNCHANGED outerResults
         \/ /\ call.type = "function"
            /\ ~JsonParses(call.function.arguments) \/ ~registryHas(OuterTools, name)
            /\ outerResults' = Append(outerResults, outerErrorResult(call))
         \/ /\ call.type = "function"
            /\ JsonParses(call.function.arguments)
            /\ name = "get_date_time"
            /\ \E outcome \in DateOutcomes :
                 outerResults' =
                   Append(outerResults,
                          IF outcome = Null THEN outerErrorResult(call)
                          ELSE outerOkResult(call, outcome.text))
  /\ UNCHANGED <<pipePc, channels, channel, trigger, aiMessages, outerResponse, reply,
                 nested>>
  /\ UNCHANGED <<typing, failure, error>>
  /\ UNCHANGED <<event, requests>>
  /\ UNCHANGED <<ledgerVars, agentVars, clientVars, utilVars>>

\* processToolCalls reaches a call of openproject_agent: execute is entered
\* with the options parsed from the call's arguments
ProcessAgentCall ==
  /\ pipePc = "tools"
  /\ outerIndex <= Len(outerResponse.tool_calls)
  /\ LET call == outerResponse.tool_calls[outerIndex]
         options == agentOptions(call.function.arguments)
     IN  /\ call.type = "function"
         /\ JsonParses(call.function.arguments)
         /\ call.function.name = "openproject_agent"
         /\ AgentStart(options.task, options.context, options.max_iterations)
  /\ pipePc' = "agent"
  /\ UNCHANGED <<channels, channel, trigger, aiMessages, outerResponse, outerResults,
                 outerIndex, reply, nested>>
  /\ UNCHANGED <<typing, failure, error>>
  /\ UNCHANGED <<event, requests>>
  /\ UNCHANGED <<ledgerVars, clientVars, utilVars>>

\* execute returned: its string is the result of the outer call
AgentCompletes ==
  /\ pipePc = "agent"
  /\ agentPc = "done"
  /\ outerResults' =
       Append(outerResults,
              outerOkResult(outerResponse.tool_calls[outerIndex], returned.text))
  /\ nested' = Append(nested, [iterations |-> iterationCount,
                               toolCalls |-> sessionToolCalls(messages)])
  /\ outerIndex' = outerIndex + 1
  /\ pipePc' = "tools"
  /\ AgentReset
  /\ UNCHANGED <<channels, channel, trigger, aiMessages, outerResponse, reply>>
  /\ UNCHANGED <<typing, failure, error>>
  /\ UNCHANGED <<event, requests>>
  /\ UNCHANGED <<ledgerVars, clientVars, utilVars>>

\* The mutant of FollowUp: the tool calls returned are those of the follow-up
\* response when it has some
FollowUpReturnsItsCalls(r) ==
  /\ pipePc = "tools"
  /\ outerIndex > Len(outerResponse.tool_calls)
  /\ reply' = toolResponse(contentOrNoResponse(r.content),
                           IF Len(r.tool_calls) > 0 THEN r.tool_calls
                           ELSE outerResponse.tool_calls,
                           outerResults)
  /\ pipePc' = "send"
  /\ UNCHANGED <<channels, channel, trigger, aiMessages, outerResponse, outerResults,
                 outerIndex, nested>>
  /\ UNCHANGED <<typing, failure, error>>
  /\ requests' = Append(requests, [ok |-> TRUE, response |-> r])
  /\ UNCHANGED event
  /\ UNCHANGED <<ledgerVars, agentVars, clientVars, utilVars>>

\* handleToolCalls after processToolCalls: the follow-up completion is
\* requested and its content, whatever else it asks for, is the reply
FollowUp(r) ==
  /\ pipePc = "tools"
  /\ outerIndex > Len(outerResponse.tool_calls)
  /\ reply' = toolResponse(contentOrNoResponse(r.content), outerResponse.tool_calls,
                           outerResults)
  /\ pipePc' = "send"
  /\ UNCHANGED <<channels, channel, trigger, aiMessages, outerResponse, outerResults,
                 outerIndex, nested>>
  /\ UNCHANGED <<typing, failure, error>>
  /\ requests' = Append(requests, [ok |-> TRUE, response |-> r])
  /\ UNCHANGED event
  /\ UNCHANGED <<ledgerVars, agentVars, clientVars, utilVars>>

\* sendResponse: the reply is posted and, when it came from handleToolCalls,
\* the tool calls are stored under the posted message
SendResponse ==
  /\ pipePc = "send"
  /\ LET sentMessage == BotReply(NumberToString(NextMessageId), NextMessageId,
                                 replyText(reply.content))
     IN  /\ channels' = [channels EXCEPT ![channel] = Append(@, sentMessage)]
         /\ toolCallsMap' = storeIfToolUse(toolCallsMap, sentMessage, reply)
  /\ PipelineReset
  /\ UNCHANGED <<last, agentVars, clientVars, utilVars>>

\* message.reply throws in sendResponse
SendFails ==
  /\ pipePc = "send"
  /\ pipePc' = "error"
  /\ error' = DiscordError
  /\ UNCHANGED <<channels, channel, trigger, aiMessages, outerResponse, outerResults,
                 outerIndex, reply, nested, typing, failure>>
  /\ UNCHANGED <<event, requests>>
  /\ UNCHANGED <<ledgerVars, agentVars, clientVars, utilVars>>

\* The catch block of handleMessage: the error sentence is posted
SendError ==
  /\ pipePc = "error"
  /\ channels' = [channels EXCEPT ![channel] =
                    Append(@, BotReply(NumberToString(NextMessageId), NextMessageId,
                                       replyText(getErrorMessage(error))))]
  /\ PipelineReset
  /\ UNCHANGED <<ledgerVars, agentVars, clientVars, utilVars>>

\* The catch block of handleMessage when sending the error sentence throws
\* too: nothing is posted, the finally block runs and handleMessage rejects
SendErrorFails ==
  /\ pipePc = "error"
  /\ PipelineReset
  /\ UNCHANGED channels
  /\ UNCHANGED <<ledgerVars, agentVars, clientVars, utilVars>>

\* The interval of the typing manager fires
TypingRefresh ==
  /\ typing.interval
  /\ typing.sent < MaxTyping
  /\ typing' = refresh(typing)
  /\ UNCHANGED <<pipePc, channels, channel, trigger, aiMessages, outerResponse,
                 outerResults, outerIndex, reply, nested, failure, error>>
  /\ UNCHANGED <<event, requests>>
  /\ UNCHANGED <<ledgerVars, agentVars, clientVars, utilVars>>

\* The mutant of DebugHistory: the command cleans the ledger up as
\* processUserMessage does
DebugHistoryAndCleanup(ch) ==
  LET recentMessages == fetchRecentMessages(channels[ch], messageHistoryLimit)
  IN  /\ toolCallsMap' = cleanupOldToolCalls(toolCallsMap, recentMessages)
      /\ last' = [op |-> "convert", messages |-> recentMessages, query |-> debugQuery,
                  result |-> convertToAIMessages(toolCallsMap', recentMessages, debugQuery)]
      /\ UNCHANGED <<agentVars, pipeVars, clientVars, utilVars>>

\* execute of /debug_history in a text channel: the window is fetched and
\* assembled; the reply is ephemeral and is in no channel's history
DebugHistory(ch) ==
  LET recentMessages == fetchRecentMessages(channels[ch], messageHistoryLimit)
  IN  /\ last' = [op |-> "convert", messages |-> recentMessages, query |-> debugQuery,
                  result |-> convertToAIMessages(toolCallsMap, recentMessages, debugQuery)]
      /\ UNCHANGED toolCallsMap
      /\ UNCHANGED <<agentVars, pipeVars, clientVars, utilVars>>

DebugCommand == \E ch \in Channels : DebugHistory(ch)

\* getToolCallsForMessage for a message of a channel, between two mentions
GetSent ==
  /\ pipePc = "idle"
  /\ \E p \in MessagePlaces : GetToolCallsForMessage(channels[p[1]][p[2]])

\* getToolCallsByMessageId for the id of a message of a channel, between two
\* mentions
GetSentById ==
  /\ pipePc = "idle"
  /\ \E p \in MessagePlaces : GetToolCallsByMessageId(channels[p[1]][p[2]].id)

\* A completion request fails with a status that has no branch of its own
FailGeneric == \E upstream \in GenericFailures : GenerateFails(upstream)

\* A completion request fails, with any status
Fail == \E upstream \in UpstreamFailures : GenerateFails(upstream)

\* A permitted mention: the question in any channel, the mention without a
\* question in the channel general
Mention ==
  \E ch \in Channels, content \in MentionContents :
    /\ content = QuestionContent \/ ch = "general"
    /\ HandleMessage(ch, content, PermittedEvent)

\* The permitted mention with a question
Question == \E ch \in Channels : HandleMessage(ch, QuestionContent, PermittedEvent)

\* The permitted mention with a question in the channel general
QuestionInGeneral == HandleMessage("general", QuestionContent, PermittedEvent)

\* A MessageCreate event of any kind
MessageCreate == \E ch \in Channels, m \in Events : HandleMessage(ch, QuestionContent, m)

Generate == \E r \in OuterResponses : GenerateResponse(r)

Follow == \E r \in OuterResponses : FollowUp(r)

\* The responses with text and the responses with tool calls that are stored
HistoryResponses ==
  {r \in OuterResponses :
     \/ r.content = Text(<<"Hello">>)
     \/ (r.tool_calls # <<>> /\ \A i \in 1..Len(r.tool_calls) : r.tool_calls[i].type = "function")}

Answer == \E r \in HistoryResponses : GenerateResponse(r)

\* The follow-up answers with text or with no content
AnswerAfterTools ==
  \E c \in {Text(<<"Hello">>), Null} : FollowUp([content |-> c, tool_calls |-> <<>>])

(***************************************************************************)
(* Calls of the REST client                                                *)
(***************************************************************************)

\* A call of listWorkPackages is made with some filters
CallListWorkPackages ==
  /\ \E f \in FilterInputs : filters' = f
  /\ endpoint' = NoEndpoint
  /\ UNCHANGED <<ledgerVars, agentVars, pipeVars, utilVars>>

\* listWorkPackages builds the query and requests the endpoint
ListWorkPackages ==
  /\ endpoint = NoEndpoint
  /\ endpoint' = listWorkPackages(filters)
  /\ UNCHANGED filters
  /\ UNCHANGED <<ledgerVars, agentVars, pipeVars, utilVars>>

(***************************************************************************)
(* Image conversions                                                       *)
(***************************************************************************)

\* The URLs of the images of the model: more than the cache holds
ImageUrls == {<<"a", ".jpg">>, <<"b", ".JPEG">>, <<"c", ".gif">>, <<"d">>}

\* The base64 text of the body downloaded from a URL
Base64Of(url) == <<"base64 of ">> \o url

\* convertImageToBase64 up to its first await: a hit returns the cached data
\* URL, a miss requests the image
ConvertImageToBase64(p, url) ==
  /\ conversions[p].pc = "idle"
  /\ conversions' =
       [conversions EXCEPT ![p] =
          IF MapHas(imageCache, url) /\ MapGet(imageCache, url) # <<>>
          THEN [pc |-> "done", url |-> url, result |-> MapGet(imageCache, url),
                outcome |-> "hit", firstKey |-> <<>>]
          ELSE [pc |-> "fetch", url |-> url, result |-> <<>>, outcome |-> "",
                firstKey |-> <<>>]]
  /\ UNCHANGED imageCache
  /\ UNCHANGED <<ledgerVars, agentVars, pipeVars, clientVars, delivery, anchorVars>>

\* fetch settles: a rejection and a response that is not ok end in the catch
\* block, which returns the URL; otherwise the body is awaited
FetchSettles(p, ok) ==
  /\ conversions[p].pc = "fetch"
  /\ conversions' =
       [conversions EXCEPT ![p] =
          IF ok THEN [@ EXCEPT !.pc = "read"]
          ELSE [@ EXCEPT !.pc = "done", !.result = conversions[p].url, !.outcome = "failed"]]
  /\ UNCHANGED imageCache
  /\ UNCHANGED <<ledgerVars, agentVars, pipeVars, clientVars, delivery, anchorVars>>

\* arrayBuffer settles: a rejection ends in the catch block; otherwise the
\* data URL is built, cached and returned in one run of the event loop
BodySettles(p, ok) ==
  /\ conversions[p].pc = "read"
  /\ LET url == conversions[p].url
         dataUrl == dataUrlOf(url, Base64Of(url))
     IN  IF ok
         THEN /\ imageCache' = cacheInsert(imageCache, url, dataUrl)
              /\ conversions' =
                   [conversions EXCEPT ![p] =
                      [@ EXCEPT !.pc = "done", !.result = dataUrl, !.outcome = "converted",
                                !.firstKey = IF Len(imageCache) >= CacheCapacity
                                             THEN <<imageCache[1].key>> ELSE <<>>]]
         ELSE /\ UNCHANGED imageCache
              /\ conversions' =
                   [conversions EXCEPT ![p] =
                      [@ EXCEPT !.pc = "done", !.result = url, !.outcome = "failed"]]
  /\ UNCHANGED <<ledgerVars, agentVars, pipeVars, clientVars, delivery, anchorVars>>

\* The caller takes the result
ConversionReturns(p) ==
  /\ conversions[p].pc = "done"
  /\ conversions' = [conversions EXCEPT ![p] = NoConversion]
  /\ UNCHANGED imageCache
  /\ UNCHANGED <<ledgerVars, agentVars, pipeVars, clientVars, delivery, anchorVars>>

Convert == \E p \in Callers, url \in ImageUrls : ConvertImageToBase64(p, url)

Fetched == \E p \in Callers, ok \in BOOLEAN : FetchSettles(p, ok)

BodyRead == \E p \in Callers, ok \in BOOLEAN : BodySettles(p, ok)

Returned == \E p \in Callers : ConversionReturns(p)

(***************************************************************************)
(* Delivery of long replies                                                *)
(***************************************************************************)

\* MAX_LENGTH of sendSplitMessage: 1990 characters in the source
MAX_LENGTH == 3

\* The longest content of the model, in characters
MaxContent == 6

\* The characters of the contents: a letter, a space and a line break
Chars == {"a", " ", "\n"}

\* The contents of the model, character by character, up to twice MAX_LENGTH
Contents == UNION {[1..n -> Chars] : n \in 0..MaxContent}

\* The while loop of splitContent: a line longer than maxLength is cut into
\* pieces of maxLength characters, the last piece staying in currentPart
RECURSIVE cutLongLine(_, _, _)
cutLongLine(parts, currentPart, maxLength) ==
  IF Len(currentPart) > maxLength
  THEN cutLongLine(Append(parts, SubSeq(currentPart, 1, maxLength)),
                   SubSeq(currentPart, maxLength + 1, Len(currentPart)), maxLength)
  ELSE [parts |-> parts, currentPart |-> currentPart]

\* The for loop of splitContent over the lines, and the push after it
RECURSIVE splitLines(_, _, _, _)
splitLines(lines, parts, currentPart, maxLength) ==
  IF lines = <<>>
  THEN IF Len(currentPart) > 0 THEN Append(parts, currentPart) ELSE parts
  ELSE LET line == Head(lines)
       IN  IF Len(currentPart) + Len(line) + 1 > maxLength
           THEN LET cut == cutLongLine(IF Len(currentPart) > 0
                                       THEN Append(parts, currentPart) ELSE parts,
                                       line, maxLength)
                IN  splitLines(Tail(lines), cut.parts, cut.currentPart, maxLength)
           ELSE splitLines(Tail(lines), parts,
                           (IF Len(currentPart) > 0 THEN currentPart \o <<"\n">>
                            ELSE currentPart) \o line,
                           maxLength)

splitContent(content, maxLength) ==
  LET parts == splitLines(Split(content, "\n"), <<>>, <<>>, maxLength)
  IN  IF Len(parts) > 0 THEN parts ELSE <<SubSeq(content, 1, maxLength)>>

\* replyMessage.reply(text) and channel.send(text), as the message they send
Reply(text) == [kind |-> "reply", text |-> text]

ChannelSend(text) == [kind |-> "send", text |-> text]

\* sendSplitMessage up to its first await: a blank or short content is
\* replied whole (the stock sentence, one token here, for a blank one); a
\* long one is split and its first part replied, unless that part is blank
SendSplitMessage(content) ==
  /\ delivery.pc = "idle"
  /\ delivery' =
       IF Trim(content) = <<>> \/ Len(content) <= MAX_LENGTH
       THEN [pc |-> "done", content |-> content, parts |-> <<>>,
             sent |-> <<Reply(replyText(content))>>,
             returned |-> <<Reply(replyText(content))>>]
       ELSE LET parts == splitContent(content, MAX_LENGTH)
                firstPart == Head(parts)
            IN  [pc |-> "parts", content |-> content, parts |-> Tail(parts),
                 sent |-> IF Trim(firstPart) # <<>> THEN <<Reply(firstPart)>> ELSE <<>>,
                 returned |-> IF Trim(firstPart) # <<>> THEN <<Reply(firstPart)>> ELSE <<>>]
  /\ UNCHANGED <<ledgerVars, agentVars, pipeVars, clientVars, cacheVars, anchorVars>>

\* One pass of the loop over the remaining parts: a part that is not blank
\* goes to the channel
SendPart ==
  /\ delivery.pc = "parts"
  /\ delivery.parts # <<>>
  /\ delivery' =
       [delivery EXCEPT
          !.parts = Tail(delivery.parts),
          !.sent = IF Trim(Head(delivery.parts)) # <<>>
                   THEN Append(delivery.sent, ChannelSend(Head(delivery.parts)))
                   ELSE delivery.sent]
  /\ UNCHANGED <<ledgerVars, agentVars, pipeVars, clientVars, cacheVars, anchorVars>>

\* After the last part sendSplitMessage returns firstSentMessage
SplitReturns ==
  /\ delivery.pc = "parts"
  /\ delivery.parts = <<>>
  /\ delivery' = [delivery EXCEPT !.pc = "done"]
  /\ UNCHANGED <<ledgerVars, agentVars, pipeVars, clientVars, cacheVars, anchorVars>>

\* The caller takes what sendSplitMessage returned
DeliveryTaken ==
  /\ delivery.pc = "done"
  /\ delivery' = NoDelivery
  /\ UNCHANGED <<ledgerVars, agentVars, pipeVars, clientVars, cacheVars, anchorVars>>

SendContent == \E content \in Contents : SendSplitMessage(content)

(***************************************************************************)
(* The anchor file                                                         *)
(***************************************************************************)

\* The ids of the anchor messages
AnchorIds == {"m1", "m2"}

\* What setAnchorMessageId and clearAnchorMessageId do with the config they
\* read, and whether they write it back
anchorUpdate(call, config) ==
  IF call.op = "set"
  THEN [write |-> TRUE, config |-> [config EXCEPT ![call.channelId] = call.messageId]]
  ELSE IF config[call.channelId] # ""
       THEN [write |-> TRUE, config |-> [config EXCEPT ![call.channelId] = ""]]
       ELSE [write |-> FALSE, config |-> config]

\* The call goes on with the config readAnchorMessages returned, up to the
\* await of writeAnchorMessages; the text written is fixed here, by
\* JSON.stringify
AfterRead(call, config) ==
  LET update == anchorUpdate(call, config)
  IN  [call EXCEPT !.pc = IF update.write THEN "write" ELSE "done",
                   !.config = update.config]

\* setAnchorMessageId and clearAnchorMessageId up to the first await of
\* readAnchorMessages, fs.access
AnchorCall(p, op, channelId, messageId) ==
  /\ anchorCalls[p].pc = "idle"
  /\ anchorCalls' =
       [anchorCalls EXCEPT ![p] =
          [pc |-> "access", op |-> op, channelId |-> channelId,
           messageId |-> messageId, config |-> NoAnchors]]
  /\ UNCHANGED anchorFile
  /\ UNCHANGED <<ledgerVars, agentVars, pipeVars, clientVars, cacheVars, delivery>>

\* fs.access settles: ENOENT leads to writeAnchorMessages({}), otherwise the
\* file is read
AccessSettles(p) ==
  /\ anchorCalls[p].pc = "access"
  /\ anchorCalls' =
       [anchorCalls EXCEPT ![p].pc = IF anchorFile.exists THEN "read" ELSE "create"]
  /\ UNCHANGED anchorFile
  /\ UNCHANGED <<ledgerVars, agentVars, pipeVars, clientVars, cacheVars, delivery>>

\* The write of the empty config settles; readAnchorMessages returns {}
CreateSettles(p) ==
  /\ anchorCalls[p].pc = "create"
  /\ anchorFile' = [exists |-> TRUE, config |-> NoAnchors]
  /\ anchorCalls' = [anchorCalls EXCEPT ![p] = AfterRead(anchorCalls[p], NoAnchors)]
  /\ UNCHANGED <<ledgerVars, agentVars, pipeVars, clientVars, cacheVars, delivery>>

\* fs.readFile settles; readAnchorMessages returns the parsed file
ReadSettles(p) ==
  /\ anchorCalls[p].pc = "read"
  /\ anchorCalls' = [anchorCalls EXCEPT ![p] = AfterRead(anchorCalls[p], anchorFile.config)]
  /\ UNCHANGED anchorFile
  /\ UNCHANGED <<ledgerVars, agentVars, pipeVars, clientVars, cacheVars, delivery>>

\* writeAnchorMessages(config) settles: the file is the config of the call
WriteSettles(p) ==
  /\ anchorCalls[p].pc = "write"
  /\ anchorFile' = [exists |-> TRUE, config |-> anchorCalls[p].config]
  /\ anchorCalls' = [anchorCalls EXCEPT ![p].pc = "done"]
  /\ UNCHANGED <<ledgerVars, agentVars, pipeVars, clientVars, cacheVars, delivery>>

\* The caller goes on after the call
AnchorCallReturns(p) ==
  /\ anchorCalls[p].pc = "done"
  /\ anchorCalls' = [anchorCalls EXCEPT ![p] = NoAnchorCall]
  /\ UNCHANGED anchorFile
  /\ UNCHANGED <<ledgerVars, agentVars, pipeVars, clientVars, cacheVars, delivery>>

\* /set-anchor in a channel
SetAnchor ==
  \E p \in Callers, ch \in Channels, id \in AnchorIds : AnchorCall(p, "set", ch, id)

\* fetchRecentMessages finds the anchor message of a channel gone
ClearAnchor == \E p \in Callers, ch \in Channels : AnchorCall(p, "clear", ch, "")

Accessed == \E p \in Callers : AccessSettles(p)

Created == \E p \in Callers : CreateSettles(p)

FileRead == \E p \in Callers : ReadSettles(p)

FileWritten == \E p \in Callers : WriteSettles(p)

AnchorReturned == \E p \in Callers : AnchorCallReturns(p)

(***************************************************************************)
(* Specifications                                                          *)
(***************************************************************************)

LedgerEmpty ==
  /\ toolCallsMap = <<>>
  /\ last = [op |-> "init"]

InitLedger ==
  /\ LedgerEmpty
  /\ AgentIdle
  /\ PipelineIdle
  /\ channels = [c \in Channels |-> <<>>]
  /\ ClientIdle
  /\ UtilIdle

\* The ledger on its own: any order of its four operations
NextLedger == Store \/ Get \/ GetById \/ Cleanup

\* The assembler over a ledger filled by any stores
NextAssemble == AssembleStore \/ Assemble

Spec == InitLedger /\ [][NextLedger]_vars

SpecAssemble == InitLedger /\ [][NextAssemble]_vars

InitAgent == InitLedger

\* One call of openProjectAgentTool.execute, for any task, context and budget
SpecAgent == InitAgent /\ [][NextAgent]_vars

\* handleMessage, one mention at a time, with execute running inside
\* processToolCalls when the first completion asks for openproject_agent
NextPipeline ==
  \/ Mention
  \/ ProcessUserMessage
  \/ Generate
  \/ FailGeneric
  \/ ProcessToolCall
  \/ ProcessAgentCall
  \/ Request
  \/ AgentRequestFails
  \/ AgentLoopExit
  \/ AgentExecuteTool
  \/ AgentFinishTurn
  \/ FinalRequest
  \/ AgentReturn
  \/ AgentCompletes
  \/ Follow
  \/ SendResponse
  \/ SendFails
  \/ SendError
  \/ SendErrorFails

SpecPipeline == InitLedger /\ [][NextPipeline]_vars

\* The pipeline with the interval of the typing manager firing
NextTyping ==
  \/ Question
  \/ ProcessUserMessage
  \/ Generate
  \/ FailGeneric
  \/ ProcessToolCall
  \/ ProcessAgentCall
  \/ Request
  \/ AgentRequestFails
  \/ AgentLoopExit
  \/ AgentExecuteTool
  \/ AgentFinishTurn
  \/ FinalRequest
  \/ AgentReturn
  \/ AgentCompletes
  \/ Follow
  \/ SendResponse
  \/ SendFails
  \/ SendError
  \/ SendErrorFails
  \/ TypingRefresh

SpecTyping == InitLedger /\ [][NextTyping]_vars

\* The pipeline with completion requests failing in every category
NextErrors ==
  \/ Question
  \/ ProcessUserMessage
  \/ Generate
  \/ Fail
  \/ ProcessToolCall
  \/ ProcessAgentCall
  \/ Request
  \/ AgentRequestFails
  \/ AgentLoopExit
  \/ AgentExecuteTool
  \/ AgentFinishTurn
  \/ FinalRequest
  \/ AgentReturn
  \/ AgentCompletes
  \/ Follow
  \/ SendResponse
  \/ SendFails
  \/ SendError
  \/ SendErrorFails

SpecErrors == InitLedger /\ [][NextErrors]_vars

\* The pipeline with MessageCreate events of every kind
NextEvents ==
  \/ MessageCreate
  \/ ProcessUserMessage
  \/ Generate
  \/ FailGeneric
  \/ ProcessToolCall
  \/ ProcessAgentCall
  \/ Request
  \/ AgentRequestFails
  \/ AgentLoopExit
  \/ AgentExecuteTool
  \/ AgentFinishTurn
  \/ FinalRequest
  \/ AgentReturn
  \/ AgentCompletes
  \/ Follow
  \/ SendResponse
  \/ SendFails
  \/ SendError
  \/ SendErrorFails

SpecEvents == InitLedger /\ [][NextEvents]_vars

\* The pipeline with /debug_history at any time and the other reads of the
\* ledger between two mentions
NextHistory ==
  \/ QuestionInGeneral
  \/ ProcessUserMessage
  \/ Answer
  \/ FailGeneric
  \/ ProcessToolCall
  \/ ProcessAgentCall
  \/ Request
  \/ AgentRequestFails
  \/ AgentLoopExit
  \/ AgentExecuteTool
  \/ AgentFinishTurn
  \/ FinalRequest
  \/ AgentReturn
  \/ AgentCompletes
  \/ AnswerAfterTools
  \/ SendResponse
  \/ SendFails
  \/ SendError
  \/ SendErrorFails
  \/ DebugCommand
  \/ GetSent
  \/ GetSentById

SpecHistory == InitLedger /\ [][NextHistory]_vars

\* Calls of listWorkPackages with any filters
InitFilters ==
  /\ LedgerEmpty
  /\ AgentIdle
  /\ PipelineIdle
  /\ channels = [c \in Channels |-> <<>>]
  /\ filters \in FilterInputs
  /\ endpoint = NoEndpoint
  /\ UtilIdle

NextFilters == CallListWorkPackages \/ ListWorkPackages

SpecFilters == InitFilters /\ [][NextFilters]_vars

\* Image conversions of two callers, interleaved at their awaits
NextCache == Convert \/ Fetched \/ BodyRead \/ Returned

SpecCache == InitLedger /\ [][NextCache]_vars

\* Deliveries of contents of every shape, one at a time
NextSplit == SendContent \/ SendPart \/ SplitReturns \/ DeliveryTaken

SpecSplit == InitLedger /\ [][NextSplit]_vars

\* Calls on the anchor file by two callers, interleaved at their awaits
NextAnchors ==
  SetAnchor \/ ClearAnchor \/ Accessed \/ Created \/ FileRead \/ FileWritten \/ AnchorReturned

SpecAnchors == InitLedger /\ [][NextAnchors]_vars

(***************************************************************************)
(* Properties of the ledger                                                *)
(***************************************************************************)

\* Two messages with the same identity: the same id and creation time
SameMessage(m1, m2) == m1.id = m2.id /\ m1.createdTimestamp = m2.createdTimestamp

\* The entry a store of (message, toolCalls, toolResults) is to leave behind
EntryOf(message, calls, results) ==
  [messageId |-> message.id, messageContent |-> message.content,
   timestamp |-> message.createdTimestamp,
   toolCalls |-> calls, toolResults |-> results]

IdInList(messageId, list) == \E k \in 1..Len(list) : list[k].id = messageId

IdentityInList(data, list) ==
  \E k \in 1..Len(list) :
    /\ list[k].id = data.messageId
    /\ list[k].createdTimestamp = data.timestamp

\* C1: cleanupOldToolCalls never removes an entry whose messageId is the id of
\* a message of the supplied list, also when the entry's composite key is not
\* among the keys of the list.
C1_EvictKeepsRetainedIds ==
  [][last'.op = "cleanup" =>
       \A i \in 1..Len(toolCallsMap) :
         IdInList(toolCallsMap[i].data.messageId, last'.recentMessages)
           => \E j \in 1..Len(toolCallsMap') : toolCallsMap'[j] = toolCallsMap[i]]_vars

\* C1 witness: a cleanup has left an entry whose id is in the list while no
\* message of the list has its id and creation time together.
C1_Witness ==
  /\ last.op = "cleanup"
  /\ \E i \in 1..Len(toolCallsMap) :
       /\ IdInList(toolCallsMap[i].data.messageId, last.recentMessages)
       /\ ~IdentityInList(toolCallsMap[i].data, last.recentMessages)

\* C4: a store leaves the entries of every other message identity as they
\* were, and a get right after a store of the same message returns an entry
\* equal to the one stored, whether or not an entry was there before.
C4_StoreGetRoundTrip ==
  [][/\ last'.op = "store" =>
          \A m \in LedgerMessages :
            ~SameMessage(m, last'.message) =>
              getToolCallsForMessage(toolCallsMap', m) = getToolCallsForMessage(toolCallsMap, m)
     /\ (last.op = "store" /\ last'.op = "get" /\ SameMessage(last'.message, last.message)) =>
          last'.result = EntryOf(last.message, last.toolCalls, last.toolResults)]_vars

\* C4 witness: a get follows a store that overwrote an entry while another
\* entry was in the ledger.
C4_Witness ==
  /\ last.op = "store"
  /\ last.existed
  /\ Len(toolCallsMap) = 2
  /\ \E i \in 1..2 : toolCallsMap[i].data.toolCalls # last.toolCalls

(***************************************************************************)
(* Properties of the assembled sequence                                    *)
(***************************************************************************)

IsToolRequest(m) == m.role = "assistant" /\ "tool_calls" \in DOMAIN m

IsToolMessage(m) == m.role = "tool"

IsInjected(m) == IsToolRequest(m) \/ IsToolMessage(m)

\* The first index after i that holds no tool message (Len + 1 when none)
RECURSIVE AfterTools(_, _)
AfterTools(r, i) ==
  IF i + 1 > Len(r) THEN Len(r) + 1
  ELSE IF IsToolMessage(r[i + 1]) THEN AfterTools(r, i + 1) ELSE i + 1

\* The tool-request message a tool message at index i answers: the nearest
\* message before it that is no tool message (0 when none)
RECURSIVE RequestOf(_, _)
RequestOf(r, i) ==
  IF i = 1 THEN 0
  ELSE IF IsToolMessage(r[i - 1]) THEN RequestOf(r, i - 1) ELSE i - 1

IsPrefix(p, s) == Len(p) <= Len(s) /\ SubSeq(s, 1, Len(p)) = p

\* A bot message of the window, its text leading the assistant text, whose
\* ledger entry recorded these tool calls
MatchedBotMessage(window, text, toolCalls) ==
  \E k \in 1..Len(window) :
    /\ window[k].bot
    /\ IsPrefix(window[k].content, text)
    /\ \E e \in 1..Len(toolCallsMap) :
         /\ toolCallsMap[e].data.messageId = window[k].id
         /\ toolCallsMap[e].data.timestamp = window[k].createdTimestamp
         /\ toolCallsMap[e].data.toolCalls = toolCalls

\* C2: in an assembled sequence every tool-request message (content null,
\* tool_calls set) is directly followed by its tool messages and these by the
\* assistant text of the bot message the entry belongs to, and every tool
\* message's tool_call_id is the id of exactly one call of the tool-request
\* message directly before its run.
C2_RequestResultsReply ==
  last.op = "convert" =>
    LET r == last.result
    IN  /\ \A i \in 1..Len(r) :
             IsToolRequest(r[i]) =>
               /\ r[i].content = Null
               /\ Len(r[i].tool_calls) > 0
               /\ AfterTools(r, i) <= Len(r)
               /\ r[AfterTools(r, i)].role = "assistant"
               /\ ~IsToolRequest(r[AfterTools(r, i)])
               /\ r[AfterTools(r, i)].content # Null
               /\ MatchedBotMessage(last.messages, r[AfterTools(r, i)].content.text,
                                    r[i].tool_calls)
        /\ \A i \in 1..Len(r) :
             IsToolMessage(r[i]) =>
               /\ RequestOf(r, i) > 0
               /\ IsToolRequest(r[RequestOf(r, i)])
               /\ Cardinality({c \in 1..Len(r[RequestOf(r, i)].tool_calls) :
                     r[RequestOf(r, i)].tool_calls[c].id = r[i].tool_call_id}) = 1

\* C2 witness: an assembled sequence holds a tool-request message followed by
\* a tool message and, after a user turn, the reply.
C2_Witness ==
  /\ last.op = "convert"
  /\ \E i \in 2..Len(last.result) :
       /\ IsToolRequest(last.result[i])
       /\ last.result[i - 1].role = "user"
       /\ i + 2 <= Len(last.result)
       /\ IsToolMessage(last.result[i + 1])
       /\ last.result[i + 2].role = "assistant"

\* A raw message that yields a turn: a user message always, a bot message
\* when it has text, an attachment or an embed
Survives(m) ==
  ~m.bot \/ m.content # <<>> \/ Len(m.attachments) > 0 \/ m.embeds > 0

HasNonSpace(query) == \E i \in 1..Len(query) : query[i] # " "

\* The query between its first and its last character that is no space
Trimmed(query) ==
  LET idx == {i \in 1..Len(query) : query[i] # " "}
      first == CHOOSE i \in idx : \A j \in idx : i <= j
      final == CHOOSE i \in idx : \A j \in idx : j <= i
  IN  SubSeq(query, first, final)

\* The turn a surviving raw message is to become
TurnOf(m, turn) ==
  IF m.bot
  THEN /\ turn.role = "assistant"
       /\ turn.content # Null
       /\ IsPrefix(m.content, turn.content.text)
  ELSE /\ turn.role = "user"
       /\ "parts" \in DOMAIN turn.content
       /\ m.content # <<>> =>
            \E p \in 1..Len(turn.content.parts) :
              /\ turn.content.parts[p].type = "text"
              /\ turn.content.parts[p].text = m.content

\* C8: the assembled sequence keeps the window's order: its turns that are
\* not injected are the surviving raw messages, oldest first as supplied;
\* injected messages stand only directly before their own bot message; the
\* query, trimmed, is the last element exactly when it is not blank; and a
\* window of user turns and one bot message with one stored call and result
\* gives user turns, tool request, tool result, assistant text, user query.
C8_WindowOrder ==
  last.op = "convert" =>
    LET r        == last.result
        nQuery   == IF HasNonSpace(last.query) THEN 1 ELSE 0
        body     == SubSeq(r, 1, Len(r) - nQuery)
        plain    == SelectSeq(body, LAMBDA m : ~IsInjected(m))
        survive  == SelectSeq(last.messages, Survives)
        n        == Len(last.messages)
    IN  /\ Len(r) >= nQuery
        /\ nQuery = 1 =>
             /\ r[Len(r)].role = "user"
             /\ r[Len(r)].content = Text(Trimmed(last.query))
        /\ Len(plain) = Len(survive)
        /\ \A i \in 1..Len(plain) : TurnOf(survive[i], plain[i])
        /\ \A i \in 1..Len(body) :
             IsInjected(body[i]) =>
               /\ AfterTools(r, i) <= Len(body)
               /\ body[AfterTools(r, i)].role = "assistant"
               /\ ~IsToolRequest(body[AfterTools(r, i)])
        /\ ( /\ n >= 1
             /\ nQuery = 1
             /\ \A k \in 1..(n - 1) : ~last.messages[k].bot
             /\ last.messages[n].bot
             /\ last.messages[n].content # <<>>
             /\ \E e \in 1..Len(toolCallsMap) :
                  /\ toolCallsMap[e].data.messageId = last.messages[n].id
                  /\ toolCallsMap[e].data.timestamp = last.messages[n].createdTimestamp
                  /\ Len(toolCallsMap[e].data.toolCalls) = 1
                  /\ Len(toolCallsMap[e].data.toolResults) = 1 )
           => /\ Len(r) = n + 3
              /\ \A k \in 1..(n - 1) : r[k].role = "user"
              /\ IsToolRequest(r[n])
              /\ IsToolMessage(r[n + 1])
              /\ r[n + 2].role = "assistant" /\ ~IsToolRequest(r[n + 2])
              /\ r[n + 3].role = "user"

\* C8 witness: a user turn and a bot reply with one stored call and result
\* were assembled with a query that needed trimming.
C8_Witness ==
  /\ last.op = "convert"
  /\ Len(last.messages) = 2
  /\ ~last.messages[1].bot
  /\ last.messages[2].bot
  /\ last.query # <<>>
  /\ HasNonSpace(last.query)
  /\ last.query[1] = " "
  /\ Len(last.result) = 5
  /\ IsToolRequest(last.result[2])
  /\ Len(last.result[2].tool_calls) = 1
  /\ IsToolMessage(last.result[3])


(***************************************************************************)
(* Properties of the nested agent                                          *)
(***************************************************************************)

\* Every completion so far came back as plain text
OnlyText == \A i \in 1..Len(replies) : replies[i] = "text"

\* Every completion so far came back with tool requests
OnlyTools == \A i \in 1..Len(replies) : replies[i] = "tools"

\* C5: when every completion response is plain text with no tool calls, the
\* agent has, once execute returned, made exactly one completion request and
\* executed no tool.
C5_PlainTextOneRequest ==
  (agentPc = "done" /\ OnlyText) => (Len(replies) = 1 /\ executed = <<>>)

\* A step of execute against a client that answers every request with tool
\* requests
ToolClientStep ==
  \/ \E r \in ToolResponses : AgentRequest(r)
  \/ AgentLoopExit
  \/ AgentExecuteTool
  \/ AgentFinishTurn
  \/ \E r \in ToolResponses : AgentFinalRequest(r)
  \/ AgentReturn

\* C6: against a client that requests tools on every response, execute with
\* budget N terminates (the counter, the completions and the position in a
\* turn are bounded and a step is enabled until it returns), the iteration
\* counter never exceeds N + 2, and the returned text is not empty.
C6_BudgetBoundary ==
  (agentPc # "idle" /\ OnlyTools) =>
    /\ iterationCount <= maxIterations + 2
    /\ Len(replies) <= maxIterations + 3
    /\ agentPc = "execute" => toolIndex <= Len(response.tool_calls) + 1
    /\ agentPc # "done" => ENABLED ToolClientStep
    /\ agentPc = "done" => returned # Null /\ returned.text # <<>>

\* C6 witness: execute returned after N + 2 iterations and one more
\* completion, each of them a tool request.
C6_Witness ==
  /\ agentPc = "done"
  /\ OnlyTools
  /\ iterationCount = maxIterations + 2
  /\ Len(replies) = maxIterations + 3
  /\ returned # Null

\* The invocation at position k of the turn failed: its arguments do not
\* parse, its tool is not in the registry, or its execute threw
Failing(k) ==
  LET toolCall == response.tool_calls[k]
  IN  /\ toolCall.type = "function"
      /\ \/ ~JsonParses(toolCall.function.arguments)
         \/ toolCall.function.name \notin registry
         \/ \E e \in 1..Len(executed) :
              /\ executed[e].iteration = iterationCount
              /\ executed[e].id = toolCall.id
              /\ executed[e].threw

\* The positions of the turn's results that carry this id
ResultsFor(id) == {j \in 1..Len(toolResults) : toolResults[j].tool_call_id = id}

ErrorPrefixed(content) ==
  content # Null /\ IsPrefix(<<"Error: Failed to execute ">>, content.text)

IsSuffix(p, s) == Len(p) <= Len(s) /\ SubSeq(s, Len(s) - Len(p) + 1, Len(s)) = p

\* The latest completion asked for tools and its turn is over
TurnOver ==
  /\ agentPc \in {"loop", "after"}
  /\ replies # <<>>
  /\ replies[Len(replies)] = "tools"

\* C7: during a turn every failed invocation handled so far has exactly one
\* result, carrying its id and an error-prefixed content, and every function
\* invocation handled so far has exactly one result, failures before it or
\* not; a turn ends only when every invocation was handled, its results are
\* in the session, execute has not returned, and a further completion is
\* requested: the loop continues or, after it, the final request is due.
C7_FailureIsolation ==
  /\ agentPc = "execute" =>
       \A k \in 1..(toolIndex - 1) :
         LET toolCall == response.tool_calls[k]
         IN  /\ toolCall.type = "function" => Cardinality(ResultsFor(toolCall.id)) = 1
             /\ Failing(k) =>
                  \A j \in ResultsFor(toolCall.id) :
                    /\ toolResults[j].role = "tool"
                    /\ ErrorPrefixed(toolResults[j].content)
  /\ TurnOver =>
       /\ toolIndex = Len(response.tool_calls) + 1
       /\ \A k \in 1..Len(response.tool_calls) :
            Failing(k) =>
              /\ Cardinality(ResultsFor(response.tool_calls[k].id)) = 1
              /\ \A j \in ResultsFor(response.tool_calls[k].id) :
                   ErrorPrefixed(toolResults[j].content)
       /\ \/ IsSuffix(toolResults, messages)
          \/ IsSuffix(toolResults \o <<summaryRequest>>, messages)
       /\ returned = Null
       /\ agentPc = "loop" =>
            \/ loopContinues(iterationCount, maxIterations, foundUserIdButNeedsList)
            \/ needsFinalResponse(finalResponse, iterationCount, maxIterations)
       /\ agentPc = "after" =>
            needsFinalResponse(finalResponse, iterationCount, maxIterations)

\* C7 witness: a turn is over in which the first invocation's arguments did
\* not parse and the second one's execute threw; both have their error
\* result and the final completion is due.
C7_Witness ==
  /\ TurnOver
  /\ agentPc = "after"
  /\ Len(response.tool_calls) = 2
  /\ ~JsonParses(response.tool_calls[1].function.arguments)
  /\ Failing(2)
  /\ Len(executed) > 0
  /\ Len(toolResults) = 2
  /\ needsFinalResponse(finalResponse, iterationCount, maxIterations)

\* How deep agents are nested: one, and one more for every execution of
\* openproject_agent inside the agent
AgentDepth ==
  1 + Cardinality({e \in 1..Len(executed) : executed[e].name = "openproject_agent"})

\* C10: the agent executes only tools of its own registry, which holds the
\* OpenProject tools and none of the outer registry; a request naming
\* openproject_agent or another outer tool is not executed and gets exactly
\* one error result with its id; agents are never nested deeper than one.
C10_OwnRegistryOnly ==
  /\ agentPc # "idle" => registry = OpenProjectTools
  /\ \A e \in 1..Len(executed) :
       executed[e].name \in OpenProjectTools /\ executed[e].name \notin OuterTools
  /\ AgentDepth <= 1
  /\ agentPc = "execute" =>
       \A k \in 1..(toolIndex - 1) :
         LET toolCall == response.tool_calls[k]
         IN  (/\ toolCall.type = "function"
              /\ JsonParses(toolCall.function.arguments)
              /\ toolCall.function.name \in OuterTools) =>
               /\ Cardinality(ResultsFor(toolCall.id)) = 1
               /\ \A j \in ResultsFor(toolCall.id) : ErrorPrefixed(toolResults[j].content)
               /\ ~\E e \in 1..Len(executed) :
                     executed[e].iteration = iterationCount /\ executed[e].id = toolCall.id

\* C10 witness: a turn asked for openproject_agent and get_date_time; both
\* have error results and nothing was executed.
C10_Witness ==
  /\ agentPc = "execute"
  /\ toolIndex = 3
  /\ response.tool_calls[1].function.name = "openproject_agent"
  /\ response.tool_calls[2].function.name = "get_date_time"
  /\ Len(toolResults) = 2
  /\ ErrorPrefixed(toolResults[1].content)
  /\ ErrorPrefixed(toolResults[2].content)
  /\ executed = <<>>

(***************************************************************************)
(* Properties of the pipeline                                              *)
(***************************************************************************)

\* The tool messages directly after the tool-request message at i that
\* carry this id
AnswersTo(r, i, id) ==
  {j \in (i + 1)..(AfterTools(r, i) - 1) : r[j].tool_call_id = id}

\* C3: in the sequence assembled for a mention, every call of every
\* tool-request message is answered by exactly one tool message before the
\* assistant text that follows.
C3_EveryCallAnswered ==
  \A i \in 1..Len(aiMessages) :
    IsToolRequest(aiMessages[i]) =>
      \A c \in 1..Len(aiMessages[i].tool_calls) :
        Cardinality(AnswersTo(aiMessages, i, aiMessages[i].tool_calls[c].id)) = 1

\* The first completion asked for the nested agent
AgentRequested(r) ==
  \E k \in 1..Len(r.tool_calls) :
    /\ r.tool_calls[k].type = "function"
    /\ r.tool_calls[k].function.name = "openproject_agent"

\* The ids of the tool requests made inside the agent sessions
NestedIds(sessions) ==
  UNION {{sessions[s].toolCalls[k].id : k \in 1..Len(sessions[s].toolCalls)} :
           s \in 1..Len(sessions)}

\* The message posted last in a channel
LastMessage(c) == channels[c][Len(channels[c])]

\* The text an agent result starts with
AgentResultText(text) ==
  \/ IsPrefix(<<"**OpenProject Agent Results**">>, text)
  \/ IsPrefix(<<"OpenProject Agent encountered an error: ">>, text)

InHistoryWindow(entry) ==
  \E c \in Channels :
    LET window == fetchRecentMessages(channels[c], messageHistoryLimit)
    IN  \E k \in 1..Len(window) :
          /\ window[k].id = entry.data.messageId
          /\ window[k].createdTimestamp = entry.data.timestamp

\* C11: no step removes a ledger entry whose message is still among the
\* most recent messageHistoryLimit messages of the channel it was sent in.
C11_EvictOnlyOutsideWindow ==
  [][\A i \in 1..Len(toolCallsMap) :
       InHistoryWindow(toolCallsMap[i]) => MapHas(toolCallsMap', toolCallsMap[i].key)]_vars


\* The ledger differs at this key before and after the step
Written(key) ==
  /\ MapHas(toolCallsMap', key)
  /\ ~MapHas(toolCallsMap, key) \/ MapGet(toolCallsMap, key) # MapGet(toolCallsMap', key)

\* C12: a step writes a ledger entry only when it is the delivery of a reply
\* that came from handleToolCalls with a non-empty list of tool calls; the
\* entry is keyed by the bot message just posted, never by the mention; the
\* delivery of a text-only reply, a failed delivery and the error reply leave
\* the ledger as it was.
C12_StoreAfterDelivery ==
  [][/\ \A key \in MapKeys(toolCallsMap') :
         Written(key) =>
           /\ pipePc = "send" /\ pipePc' = "idle"
           /\ "toolCalls" \in DOMAIN reply /\ "toolResults" \in DOMAIN reply
           /\ Len(reply.toolCalls) > 0
           /\ Len(channels'[channel]) = Len(channels[channel]) + 1
           /\ LET sent == channels'[channel][Len(channels'[channel])]
              IN  /\ sent.bot
                  /\ key = generateMessageKey(sent)
                  /\ key # generateMessageKey(trigger)
                  /\ MapGet(toolCallsMap', key).toolCalls = reply.toolCalls
                  /\ MapGet(toolCallsMap', key).toolResults = reply.toolResults
     /\ (pipePc = "send" /\ "toolCalls" \notin DOMAIN reply) => toolCallsMap' = toolCallsMap
     /\ (pipePc = "send" /\ pipePc' = "error") => toolCallsMap' = toolCallsMap
     /\ pipePc = "error" => toolCallsMap' = toolCallsMap
    ]_vars

\* C12 witness: a reply with tool use was posted after a mention; the ledger
\* holds an entry under the reply and none under the mention.
C12_Witness ==
  /\ pipePc = "idle"
  /\ \E c \in Channels :
       /\ Len(channels[c]) >= 2
       /\ LastMessage(c).bot
       /\ ~channels[c][Len(channels[c]) - 1].bot
       /\ MapHas(toolCallsMap, generateMessageKey(LastMessage(c)))
       /\ MapGet(toolCallsMap, generateMessageKey(LastMessage(c))).messageContent
            = LastMessage(c).content
       /\ ~MapHas(toolCallsMap, generateMessageKey(channels[c][Len(channels[c]) - 1]))

\* C13: while a mention is being handled the typing manager is active with its
\* interval set, from the step that accepts the mention and so before the
\* history fetch; when handleMessage has settled (reply sent, error sentence
\* sent, or the error sentence itself failed) the manager is stopped and its
\* interval cleared, and from then on it sends no typing signal.
C13_TypingStartedAndStopped ==
  /\ [](pipePc # "idle" => typing.isActive /\ typing.interval /\ typing.sent >= 1)
  /\ [](pipePc = "idle" => ~typing.isActive /\ ~typing.interval)
  /\ [][(pipePc = "idle" /\ pipePc' = "idle") => typing' = typing]_vars
  /\ [][pipePc' = "idle" => typing'.sent = typing.sent]_vars

\* The error sentence itself failed to send after the interval had fired: the
\* mention is the last message of its channel and the manager is stopped
C13_Witness ==
  /\ pipePc = "idle"
  /\ \E c \in Channels : Len(channels[c]) >= 1 /\ ~LastMessage(c).bot
  /\ typing.sent >= 2
  /\ ~typing.isActive
  /\ ~typing.interval

\* C14: when the error sentence is sent for a failed completion request, no
\* failure of another category is answered with the same sentence, and the
\* sentence does not include the message of the upstream error.
C14_OwnSentencePerCategory ==
  [][(/\ pipePc = "error"
      /\ failure # NoFailure
      /\ Len(channels'[channel]) > Len(channels[channel]))
     => LET sentence == channels'[channel][Len(channels'[channel])].content
        IN  /\ \A other \in UpstreamFailures :
                 failureCategory(other) # failureCategory(failure)
                   => sentence # replyText(getErrorMessage(
                                    [message |-> generateResponseError(other)]))
            /\ ~Includes(sentence, failure.message)]_vars

\* C15: the content handed to sendSplitMessage is never the empty string,
\* every message the bot has sent has text that is not blank, and the string
\* execute of the nested agent returns is never empty, whether the loop ended
\* with a final response, ran out of budget or was left through the catch block.
C15_NonEmptyText ==
  /\ pipePc = "send" => reply.content # <<>>
  /\ pipePc = "error" => getErrorMessage(error) # <<>>
  /\ \A c \in Channels : \A k \in 1..Len(channels[c]) :
       channels[c][k].bot => Trim(channels[c][k].content) # <<>>
  /\ agentPc = "done" => returned # Null /\ returned.text # <<>>

\* A blank completion was answered with the stock reply
C15_Witness ==
  /\ pipePc = "idle"
  /\ \E c \in Channels :
       /\ Len(channels[c]) >= 2
       /\ LastMessage(c).bot
       /\ LastMessage(c).content =
            <<"I processed your request but have no specific response.">>

\* C16: when generateResponse of the outer pipeline throws, on the first
\* request or on the follow-up request after the tools ran, the handler goes
\* to its catch block with the ledger as it was; from there no completion is
\* requested and no tool is run, the ledger stays as it is, and the step that
\* posts a reply posts the sentence getErrorMessage gives for the thrown error.
C16_FailedCompletionAborts ==
  [][/\ (failure = NoFailure /\ failure' # NoFailure) => pipePc' = "error"
     /\ (pipePc \in {"generate", "tools"} /\ pipePc' = "error")
          => /\ failure' \in UpstreamFailures
             /\ toolCallsMap' = toolCallsMap
             /\ channels' = channels
     /\ (pipePc = "error" /\ failure # NoFailure)
          => /\ pipePc' \in {"error", "idle"}
             /\ toolCallsMap' = toolCallsMap
             /\ agentPc' = agentPc
             /\ outerResults' = outerResults \/ pipePc' = "idle"
             /\ \A c \in Channels :
                  channels'[c] # channels[c]
                    => /\ c = channel
                       /\ channels'[c] =
                            Append(channels[c],
                                   BotReply(NumberToString(NextMessageId), NextMessageId,
                                            getErrorMessage(error)))]_vars

\* The follow-up request failed after a tool had run, and the error sentence
\* is the last message of the channel, with no ledger entry
C16_Witness ==
  /\ pipePc = "idle"
  /\ nested # <<>>
  /\ \E c \in Channels :
       /\ Len(channels[c]) >= 2
       /\ LastMessage(c).bot
       /\ LastMessage(c).content =
            <<"Sorry, I'm being rate limited. Please wait a moment and try again.">>
       /\ ~MapHas(toolCallsMap, generateMessageKey(LastMessage(c)))

\* The session of the nested agent ended with a completion request that threw
FailedSession == replies # <<>> /\ replies[Len(replies)] = "error"

\* C17: once a completion request of the nested agent has thrown, the session
\* requests no further completion and runs no further tool, and the failure
\* reaches processToolCalls as a failure: the step that takes the outcome of
\* the session either leaves the pipeline in the catch block of handleMessage
\* or records the error result of the catch block of processToolCalls.
C17_NestedFailurePropagates ==
  [][/\ (FailedSession /\ agentPc' # "idle")
          => replies' = replies /\ executed' = executed
     /\ (pipePc = "agent" /\ FailedSession /\ agentPc' = "idle")
          => \/ pipePc' = "error"
             \/ outerResults' =
                  Append(outerResults,
                         outerErrorResult(outerResponse.tool_calls[outerIndex]))]_vars

\* The author is a member the configuration of the guild lets in
Permitted(e) ==
  /\ e.guild \in DOMAIN guildPermissions
  /\ \/ e.member \in guildPermissions[e.guild].allowedUsers
     \/ e.roles \cap guildPermissions[e.guild].allowedRoles # {}

\* The message is a mention of the bot by a permitted user in a text channel
Accepted(e) == ~e.authorBot /\ e.textChannel /\ e.mentioned /\ Permitted(e)

\* C18: a pipeline is under way only for a message that is no bot's, is in a
\* text channel, mentions the bot and has a permitted author; the ledger, the
\* assembled messages, the completion and its tool results and the nested
\* agent change only then.  For any other message the handler changes nothing
\* but the channel: a mention by a user who is not permitted is followed by
\* the permission-denied reply, every other message by nothing.
C18_OnlyPermittedMentions ==
  /\ [](pipePc # "idle" => Accepted(event))
  /\ [][/\ (\/ toolCallsMap' # toolCallsMap
            \/ aiMessages' # aiMessages
            \/ outerResponse' # outerResponse
            \/ outerResults' # outerResults
            \/ agentVars' # agentVars
            \/ typing' # typing)
             => pipePc # "idle" \/ (Accepted(event') /\ pipePc' # "idle")
        /\ (pipePc = "idle" /\ ~Accepted(event'))
             => /\ pipePc' = "idle"
                /\ \A c \in Channels :
                     \/ channels'[c] = channels[c]
                     \/ /\ ~event'.authorBot /\ event'.textChannel
                        /\ event'.mentioned
                        /\ Len(channels'[c]) = Len(channels[c]) + 2
                        /\ SubSeq(channels'[c], 1, Len(channels[c])) = channels[c]
                        /\ ~channels'[c][Len(channels[c]) + 1].bot
                        /\ channels'[c][Len(channels[c]) + 2].bot
                        /\ channels'[c][Len(channels[c]) + 2].content = permissionDenied
                     \/ /\ ~event'.authorBot /\ event'.textChannel
                        /\ ~event'.mentioned
                        /\ Len(channels'[c]) = Len(channels[c]) + 1
                        /\ SubSeq(channels'[c], 1, Len(channels[c])) = channels[c]
                        /\ ~channels'[c][Len(channels[c]) + 1].bot]_vars

\* A member of a guild that is not configured has mentioned the bot and has
\* the permission-denied reply, with the ledger empty
C18_Witness ==
  /\ pipePc = "idle"
  /\ event.mentioned /\ event.textChannel /\ ~event.authorBot
  /\ event.guild \notin DOMAIN guildPermissions
  /\ toolCallsMap = <<>>
  /\ \E c \in Channels :
       /\ Len(channels[c]) >= 2
       /\ LastMessage(c).content = permissionDenied

\* The step is sendResponse storing the tool calls of the reply it has sent
StoredBySendResponse ==
  /\ pipePc = "send"
  /\ pipePc' = "idle"
  /\ "toolCalls" \in DOMAIN reply
  /\ Len(channels'[channel]) = Len(channels[channel]) + 1
  /\ toolCallsMap' =
       storeToolCallsForMessage(toolCallsMap, channels'[channel][Len(channels'[channel])],
                                reply.toolCalls, reply.toolResults)

\* The step is processUserMessage cleaning up against the window it fetched
CleanedByProcessUserMessage ==
  /\ pipePc = "process"
  /\ pipePc' = "generate"
  /\ \E recentMessages \in
          {fetchRecentMessages(channels[channel], messageHistoryLimit), <<>>} :
       toolCallsMap' = cleanupOldToolCalls(toolCallsMap, recentMessages)

\* C20: a step that changes the ledger is the store of sendResponse or the
\* cleanup of processUserMessage; a step that reads the ledger for
\* /debug_history, by getToolCallsForMessage or by getToolCallsByMessageId
\* leaves the ledger as it was.
C20_LedgerWriters ==
  [][/\ toolCallsMap' # toolCallsMap
          => StoredBySendResponse \/ CleanedByProcessUserMessage
     /\ last' # last => toolCallsMap' = toolCallsMap]_vars

\* /debug_history has assembled a window in which a reply has its stored tool
\* calls, and the entry is still in the ledger
C20_Witness ==
  /\ last.op = "convert"
  /\ last.query = debugQuery
  /\ \E i \in 1..Len(last.result) : last.result[i].role = "tool"
  /\ \E k \in 1..Len(last.messages) :
       MapHas(toolCallsMap, generateMessageKey(last.messages[k]))

(***************************************************************************)
(* Properties of the REST client                                           *)
(***************************************************************************)

\* The value is a range "<>d:start,end"
IsDateRange(s) ==
  Len(s) >= 4 /\ s[1] = "<>d:" /\ \E i \in 3..(Len(s) - 1) : s[i] = ","

\* The operator and the values a defined filter is given
FilterFor(key, value) ==
  IF "array" \in DOMAIN value
  THEN filterObject(key, "=", [i \in 1..Len(value.array) |-> StringOf(value.array[i])])
  ELSE IF key \in {"subject", "description"}
  THEN filterObject(key, "**", <<value.string>>)
  ELSE IF key \in DateKeys
  THEN IF IsDateRange(value.string)
       THEN filterObject(key, "<>d", Split(Tail(value.string), ","))
       ELSE IF Head(value.string) = ">="
       THEN filterObject(key, ">=", <<Tail(value.string)>>)
       ELSE IF Head(value.string) = "<"
       THEN filterObject(key, "<", <<Tail(value.string)>>)
       ELSE filterObject(key, "=d", <<value.string>>)
  ELSE filterObject(key, "=", <<value.string>>)

\* The entries of the filters object whose value is defined
DefinedEntries(entries) == SelectSeq(entries, LAMBDA entry : entry.value # Undefined)

\* C19: the endpoint listWorkPackages requests has no filters parameter when
\* the filters are undefined or have no defined entry; otherwise its filters
\* parameter holds one filter object for each defined entry, in their order,
\* with the operator and the values of the entry's key and value.
C19_FilterPerDefinedEntry ==
  endpoint # NoEndpoint =>
    LET defined == IF filters.defined THEN DefinedEntries(filters.entries) ELSE <<>>
    IN  IF defined = <<>> THEN endpoint.query = <<>>
        ELSE /\ Len(endpoint.query) = 1
             /\ endpoint.query[1].name = "filters"
             /\ endpoint.query[1].value =
                  [i \in 1..Len(defined) |-> FilterFor(defined[i].key, defined[i].value)]

\* The entry of the ledger before a cleanup is stale for the list: its
\* composite key is the key of no message of the list and its messageId is
\* the id of no message of the list
Stale(entry, list) ==
  /\ \A k \in 1..Len(list) : generateMessageKey(list[k]) # entry.key
  /\ ~IdInList(entry.data.messageId, list)

\* C21: cleanupOldToolCalls(recent) removes every entry whose composite key is
\* not among the keys of recent and whose messageId is not among the ids of
\* recent, and leaves every other entry in place, key and value unchanged.
C21_CleanupRemovesStaleOnly ==
  [][last'.op = "cleanup" =>
       LET recent == last'.recentMessages
           kept == {i \in 1..Len(toolCallsMap) : ~Stale(toolCallsMap[i], recent)}
       IN  /\ \A i \in 1..Len(toolCallsMap) :
                Stale(toolCallsMap[i], recent) => ~MapHas(toolCallsMap', toolCallsMap[i].key)
           /\ Len(toolCallsMap') = Cardinality(kept)
           /\ \A i \in kept :
                toolCallsMap'[Cardinality({j \in kept : j <= i})] = toolCallsMap[i]]_vars

\* C21 witness: a cleanup of a ledger of two entries has removed the first,
\* stale for the list, and left the second, whose id is in the list
C21_Witness ==
  /\ last.op = "cleanup"
  /\ Len(last.before) = 2
  /\ Stale(last.before[1], last.recentMessages)
  /\ ~Stale(last.before[2], last.recentMessages)
  /\ toolCallsMap = <<last.before[2]>>

(***************************************************************************)
(* Properties of the forced summary                                        *)
(***************************************************************************)

\* The places of the session that hold the request for a final summary
SummaryPlaces == {i \in 1..Len(messages) : messages[i] = summaryRequest}

\* The completion requests that opened a turn: one assistant tool-request
\* message each
TurnsOpened ==
  Cardinality({i \in 1..Len(messages) : messages[i].role = "assistant"})

\* A turn ends: its results join the session
TurnEnds == agentPc = "execute" /\ agentPc' = "loop"

\* The texts a completion may carry, and the notice that stands for a final
\* response whose content is no string
AvailableTexts ==
  {r.content.text : r \in {x \in PlainResponses \cup ToolResponses : x.content # Null}}
    \cup {<<"OpenProject task completed after maximum iterations.">>}

\* What follows the request for a summary: it stays the only one, at most
\* two completion requests follow it, no tool is executed any more, and
\* execute returns the text of the last completion, or the notice, between
\* header and footer
AfterSummary ==
  /\ [](Cardinality(SummaryPlaces) <= 1)
  /\ [](SummaryPlaces # {} => Len(replies) - TurnsOpened <= 2)
  /\ [][(SummaryPlaces # {} /\ agentPc # "done") => executed' = executed]_vars
  /\ []((SummaryPlaces # {} /\ agentPc = "done" /\ replies[Len(replies)] # "error") =>
          /\ finalResponse \in AvailableTexts
          /\ returned = Text(agentReturn(finalResponse, Cardinality(registry), iterationCount)))

\* C22 as stated: when the iteration counter reaches the configured ceiling
\* while the model is still requesting tools, exactly one user message asking
\* for a final summary is appended after that turn's tool results; after it at
\* most two further completion requests are made, none of whose tool requests
\* are executed, and execute returns the text available (the completion
\* notice when the final response has none).
C22_SummaryAtConfiguredCeiling ==
  /\ [][(TurnEnds /\ iterationCount = maxIterations) =>
          messages' = messages \o toolResults \o <<summaryRequest>>]_vars
  /\ AfterSummary

\* The ceiling in force when a turn ends: two more than the configured one
\* once the extension flag is set (the flag as the turn leaves it)
EffectiveCeiling ==
  IF foundUserIdButNeedsList' THEN maxIterations + 2 ELSE maxIterations

\* C22 amended: the same with the ceiling in force in place of the configured
\* one: a turn that ends with the counter at the ceiling in force appends its
\* results and one request for a summary, any other turn its results alone.
C22_SummaryAtEffectiveCeiling ==
  /\ [][TurnEnds =>
          messages' = messages \o toolResults
                        \o (IF iterationCount = EffectiveCeiling
                            THEN <<summaryRequest>> ELSE <<>>)]_vars
  /\ AfterSummary

\* C22 witness: with the extension granted the summary was asked for after
\* turn N + 2, the completion after it asked for tools again, none was
\* executed and execute returned
C22_Witness ==
  /\ agentPc = "done"
  /\ foundUserIdButNeedsList
  /\ iterationCount = maxIterations + 2
  /\ SummaryPlaces = {Len(messages)}
  /\ replies[Len(replies)] = "tools"
  /\ Len(replies) = TurnsOpened + 1
  /\ \A e \in 1..Len(executed) : executed[e].iteration <= iterationCount
  /\ returned # Null

(***************************************************************************)
(* Properties of the extension of the loop                                 *)
(***************************************************************************)

\* The session holds the result of a search_users invocation with "User ID:"
\* in it: a tool message that answers a search_users call of the tool-request
\* message of its turn
UserIdObtained ==
  \E i, j \in 1..Len(messages) :
    /\ i < j
    /\ messages[i].role = "assistant"
    /\ \A k \in (i + 1)..j : messages[k].role = "tool"
    /\ \E c \in 1..Len(messages[i].tool_calls) :
         /\ messages[i].tool_calls[c].function.name = "search_users"
         /\ messages[i].tool_calls[c].id = messages[j].tool_call_id
    /\ Includes(messages[j].content.text, <<"User ID:">>)

\* The wording of the task mentions list, issue or work package, whatever
\* the case of its letters
MentionsListing ==
  \E word \in {<<"l", "i", "s", "t">>, <<"i", "s", "s", "u", "e">>,
               <<"w", "o", "r", "k", " ", "p", "a", "c", "k", "a", "g", "e">>} :
    Includes(ToLowerCase(task), word)

\* C23: the loop runs more than N iterations only if a search_users result
\* with "User ID:" was obtained for a task that mentions list, issue or work
\* package, and then at most N + 2; at most one completion request is made
\* after the loop, and none while it runs that is not an iteration.
C23_ExtensionOnlyForListing ==
  agentPc # "idle" =>
    /\ iterationCount > maxIterations => UserIdObtained /\ MentionsListing
    /\ iterationCount <= maxIterations + 2
    /\ Len(replies) - iterationCount \in {0, 1}
    /\ agentPc \in {"loop", "execute"} => Len(replies) = iterationCount

\* C23 witness: execute returned after N + 2 iterations, the last of them a
\* turn of tools, and one completion after the loop, which gave the text
C23_Witness ==
  /\ agentPc = "done"
  /\ UserIdObtained
  /\ iterationCount = maxIterations + 2
  /\ Len(replies) = iterationCount + 1
  /\ replies[Len(replies)] = "text"
  /\ SummaryPlaces # {}

(***************************************************************************)
(* Properties of the iteration counter                                     *)
(***************************************************************************)

\* execute returned its results, between header and footer
ReturnedResults ==
  /\ agentPc = "done"
  /\ returned # Null
  /\ Head(returned.text) = "**OpenProject Agent Results**"

\* The count the provenance footer reports
FooterCount == returned.text[Len(returned.text) - 1]

\* A completion request of the loop is answered
RequestAnswered == agentPc = "loop" /\ Len(replies') = Len(replies) + 1

\* A completion request of the loop is answered with tool requests, which
\* are executed next
RequestToExecute == agentPc = "loop" /\ agentPc' = "execute"

\* C24 as stated: the counter goes up by one with every step from requesting
\* to executing and with no other step, the footer reports it, and on return
\* it is the number of turns whose tool requests were executed.
C24_CountsExecutedTurns ==
  /\ [][iterationCount' # iterationCount =>
          (RequestToExecute /\ iterationCount' = iterationCount + 1)]_vars
  /\ [][RequestToExecute => iterationCount' = iterationCount + 1]_vars
  /\ [](ReturnedResults => (FooterCount = iterationCount /\ iterationCount = TurnsOpened))

\* C24 amended: the counter goes up by one with every completion request of
\* the loop and with no other step, the footer reports it, and on return it is
\* the number of turns whose tool requests were executed, and one more when
\* the loop ended with a response that requests no tools.
C24_CountsLoopRequests ==
  /\ [][iterationCount' # iterationCount =>
          (RequestAnswered /\ iterationCount' = iterationCount + 1)]_vars
  /\ [][RequestAnswered => iterationCount' = iterationCount + 1]_vars
  /\ [](ReturnedResults =>
          /\ FooterCount = iterationCount
          /\ iterationCount =
               TurnsOpened + (IF replies[iterationCount] = "text" THEN 1 ELSE 0))

\* C24 witness: execute returned after a turn of tools and a response with
\* text, and the footer reports two iterations
C24_Witness ==
  /\ ReturnedResults
  /\ TurnsOpened = 1
  /\ executed # <<>>
  /\ replies = <<"tools", "text">>
  /\ FooterCount = 2

(***************************************************************************)
(* Properties of a turn of the agent                                       *)
(***************************************************************************)

\* The places of the session's tool-request messages, and the one of turn n
RequestPlaces == {i \in 1..Len(messages) : messages[i].role = "assistant"}

RequestPlace(n) ==
  CHOOSE i \in RequestPlaces : Cardinality({j \in RequestPlaces : j <= i}) = n

\* The position of the invocation with that id among the calls of turn n
CallPosition(n, id) ==
  LET calls == messages[RequestPlace(n)].tool_calls
  IN  CHOOSE k \in 1..Len(calls) : calls[k].id = id

\* The tool-request message at place i is followed at once by one tool
\* message per invocation, in the order of the invocations, and by no other
FollowedByItsResults(i) ==
  LET calls == messages[i].tool_calls
  IN  /\ i + Len(calls) <= Len(messages)
      /\ \A k \in 1..Len(calls) :
           /\ messages[i + k].role = "tool"
           /\ messages[i + k].tool_call_id = calls[k].id
      /\ i + Len(calls) < Len(messages) => messages[i + Len(calls) + 1].role # "tool"

\* C25: outside a turn every tool-request message of the session is followed
\* at once by exactly one tool message per requested invocation, in the order
\* issued; the invocations of a turn execute in that order, turn after turn,
\* and no completion is requested while a turn is being executed.
C25_TurnAnsweredInOrder ==
  /\ [](agentPc \in {"loop", "after", "done"} =>
          \A i \in RequestPlaces : FollowedByItsResults(i))
  /\ [](\A a, b \in 1..Len(executed) :
          a < b =>
            \/ executed[a].iteration < executed[b].iteration
            \/ /\ executed[a].iteration = executed[b].iteration
               /\ CallPosition(executed[a].iteration, executed[a].id)
                    < CallPosition(executed[b].iteration, executed[b].id))
  /\ [][replies' # replies => agentPc \in {"loop", "after"}]_vars

(***************************************************************************)
(* Properties of the image cache                                           *)
(***************************************************************************)

\* The caller p stores its data URL in this step
Inserts(p) ==
  /\ conversions[p].pc = "read"
  /\ conversions'[p].outcome = "converted"

\* The download of caller p fails in this step
Fails(p) ==
  /\ conversions[p].pc \in {"fetch", "read"}
  /\ conversions'[p].outcome = "failed"

\* C26: the cache never holds more entries than its capacity, however the
\* conversions of the callers interleave; an insert that finds the cache at
\* capacity evicts the oldest-inserted entry and no other; a failed download
\* inserts nothing and returns the original URL.
C26_CacheBounded ==
  /\ [](Len(imageCache) <= CacheCapacity)
  /\ [][\A p \in Callers :
          Inserts(p) =>
            LET url == conversions[p].url
                oldest == imageCache[1].key
            IN  IF Len(imageCache) >= CacheCapacity
                THEN /\ MapKeys(imageCache') = (MapKeys(imageCache) \ {oldest}) \cup {url}
                     /\ url # oldest =>
                          \A i \in 2..Len(imageCache) :
                            MapGet(imageCache', imageCache[i].key) =
                              (IF imageCache[i].key = url THEN conversions'[p].result
                               ELSE imageCache[i].data)
                ELSE MapKeys(imageCache') = MapKeys(imageCache) \cup {url}]_vars
  /\ [][\A p \in Callers :
          Fails(p) => (imageCache' = imageCache /\ conversions'[p].result = conversions[p].url)]_vars

\* C26 witness: both callers missed the same URL and both stored it; the
\* second store found the cache at capacity and evicted the oldest key
C26_Witness ==
  /\ conversions["p1"].outcome = "converted"
  /\ conversions["p2"].outcome = "converted"
  /\ conversions["p1"].url = conversions["p2"].url
  /\ conversions["p2"].firstKey # <<>>
  /\ ~MapHas(imageCache, conversions["p2"].firstKey[1])
  /\ Len(imageCache) = CacheCapacity

(***************************************************************************)
(* Properties of the lookup by identity                                    *)
(***************************************************************************)

\* The entries of the ledger with the id of the message and at least one
\* recorded invocation
EntriesOf(m) ==
  {e \in 1..Len(toolCallsMap) :
     /\ toolCallsMap[e].data.messageId = m.id
     /\ Len(toolCallsMap[e].data.toolCalls) > 0}

\* The assembled sequence r holds the tool-request message of the entry, its
\* tool messages and then the assistant text of the message
SplicedBefore(r, entry, m) ==
  \E i \in 1..Len(r) :
    /\ IsToolRequest(r[i])
    /\ r[i].tool_calls = entry.toolCalls
    /\ AfterTools(r, i) <= Len(r)
    /\ r[AfterTools(r, i)].role = "assistant"
    /\ ~IsToolRequest(r[AfterTools(r, i)])
    /\ r[AfterTools(r, i)].content # Null
    /\ IsPrefix(m.content, r[AfterTools(r, i)].content.text)

\* C27: for every bot message of the window that survives the empty-message
\* skip and whose id is the messageId of a ledger entry with at least one
\* recorded invocation, the assembled sequence holds that entry's tool-request
\* and tool messages before the message's assistant text, also when the
\* creation time of the message in the window is not the one stored.
C27_SplicedByIdentity ==
  last.op = "convert" =>
    \A k \in 1..Len(last.messages) :
      LET m == last.messages[k]
      IN  (m.bot /\ Survives(m) /\ EntriesOf(m) # {}) =>
            \E e \in EntriesOf(m) : SplicedBefore(last.result, toolCallsMap[e].data, m)

(***************************************************************************)
(* Properties of the follow-up request                                     *)
(***************************************************************************)

\* sendResponse stores an entry in this step
Stores == pipePc = "send" /\ pipePc' = "idle" /\ toolCallsMap' # toolCallsMap

\* C28: for a mention the pipeline makes at most two completion requests;
\* tools are executed for the first response only; after the follow-up
\* request no tool is executed and no result recorded, whatever the follow-up
\* response asks for; and the toolCalls stored are those of the first
\* response.
C28_OneToolTurn ==
  /\ [](Len(requests) <= 2)
  /\ [](pipePc \in {"tools", "agent"} =>
          /\ Len(requests) = 1
          /\ requests[1].ok
          /\ requests[1].response = outerResponse)
  /\ [](agentPc # "idle" => pipePc = "agent")
  /\ [][(Len(requests) = 2 /\ pipePc' # "idle") =>
          UNCHANGED <<outerResults, outerIndex, nested, agentVars>>]_vars
  /\ [][Stores =>
          /\ Len(toolCallsMap') = Len(toolCallsMap) + 1
          /\ toolCallsMap'[Len(toolCallsMap')].data.toolCalls = requests[1].response.tool_calls
          /\ \A i \in 1..Len(toolCallsMap) : toolCallsMap'[i] = toolCallsMap[i]]_vars

\* C28 witness: the follow-up response asked for tools other than those of
\* the first response, and the reply about to be sent carries the first
\* response's
C28_Witness ==
  /\ pipePc = "send"
  /\ Len(requests) = 2
  /\ Len(requests[2].response.tool_calls) > 0
  /\ requests[2].response.tool_calls # requests[1].response.tool_calls
  /\ "toolCalls" \in DOMAIN reply
  /\ reply.toolCalls = requests[1].response.tool_calls
  /\ Len(outerResults) > 0


(***************************************************************************)
(* C29: the messages of sendSplitMessage                                   *)
(***************************************************************************)

\* No message sent is longer than MAX_LENGTH
SentWithinLimit ==
  \A i \in 1..Len(delivery.sent) : Len(delivery.sent[i].text) <= MAX_LENGTH

\* The chunks of a content: the content itself (or the stock sentence) when
\* it is short, the parts of splitContent otherwise
ChunksOf(content) ==
  IF Trim(content) = <<>> \/ Len(content) <= MAX_LENGTH
  THEN <<replyText(content)>>
  ELSE splitContent(content, MAX_LENGTH)

NotBlank(part) == Trim(part) # <<>>

\* The messages of a finished call are the chunks that are not blank, in
\* their order
SentInOrder ==
  delivery.pc = "done" =>
    [i \in 1..Len(delivery.sent) |-> delivery.sent[i].text]
      = SelectSeq(ChunksOf(delivery.content), NotBlank)

\* The first message of a finished call is a reply and the others are plain
\* channel messages
FirstIsReply ==
  delivery.pc = "done" =>
    /\ delivery.sent # <<>>
    /\ delivery.sent[1].kind = "reply"
    /\ \A i \in 2..Len(delivery.sent) : delivery.sent[i].kind = "send"

\* C29: every message sent by sendSplitMessage is at most MAX_LENGTH
\* characters long, whatever the content, single lines longer than
\* MAX_LENGTH included; the chunks are sent in order, the first as a reply to
\* the triggering message and the rest as plain channel messages.
C29_SplitWithinLimit == SentWithinLimit /\ SentInOrder /\ FirstIsReply


(***************************************************************************)
(* C30: concurrent calls on the anchor file                                *)
(***************************************************************************)

\* A step of the call of a caller
StepOf(p) == anchorCalls'[p] # anchorCalls[p]

\* A step leaves the stored anchors of these channels as they are
Untouched(chs) == \A ch \in chs : anchorFile'.config[ch] = anchorFile.config[ch]

\* C30: a call of setAnchorMessageId or clearAnchorMessageId for one channel
\* never changes the stored anchor of another channel, however the calls
\* interleave: once two concurrent calls for different channels have
\* completed, the stored map reflects both.
C30_OtherChannelsUntouched ==
  [][\A p \in Callers :
       StepOf(p) => Untouched(Channels \ {anchorCalls[p].channelId})]_vars

====
